---- MODULE Spec2Model ----
(***************************************************************************)
(* TrashDoctor: the rule engine (src/src/rules.rs) and the action executor *)
(* (src/src/actions.rs) as state machines.                                 *)
(*                                                                         *)
(* Strings are sequences of one-character strings.  A u64 is a sequence of *)
(* U64Limbs base-LimbBase digits, least significant first, so that the     *)
(* products with 86400 and 1024 are computed at their real width.          *)
(* Option<T> is <<>> for None and <<x>> for Some(x).                       *)
(***************************************************************************)
EXTENDS Integers, Sequences, FiniteSets, TLC

\* ------------------------------------------------------------------ bounds

\* Longest record collection handed to apply_rules.
MaxFiles == 2

\* Number of times the caller changes a RuleConfig field and filters again.
MaxEdits == 1

\* ------------------------------------------------------------- u64 numbers

U64Limbs == 8

LimbBase == 256

RECURSIVE NatLimbs(_, _)
NatLimbs(n, k) ==
    IF k = 0 THEN <<>> ELSE <<n % LimbBase>> \o NatLimbs(n \div LimbBase, k - 1)

\* The u64 of a natural below 2^31.
U64(n) == NatLimbs(n, U64Limbs)

\* The u64 2^e, e < 64.
Pow2(e) == [i \in 1..U64Limbs |-> IF i = (e \div 8) + 1 THEN 2 ^ (e % 8) ELSE 0]

RECURSIVE LessFrom(_, _, _)
LessFrom(a, b, i) ==
    IF i = 0 THEN FALSE
    ELSE IF a[i] # b[i] THEN a[i] < b[i]
    ELSE LessFrom(a, b, i - 1)

\* a < b on u64.
Less(a, b) == LessFrom(a, b, U64Limbs)

RECURSIVE SubFrom(_, _, _, _)
SubFrom(a, b, i, borrow) ==
    IF i > U64Limbs THEN <<>>
    ELSE LET d == a[i] - b[i] - borrow
         IN  IF d < 0
             THEN <<d + LimbBase>> \o SubFrom(a, b, i + 1, 1)
             ELSE <<d>> \o SubFrom(a, b, i + 1, 0)

\* u64::saturating_sub.
saturating_sub(a, b) ==
    IF Less(a, b) THEN U64(0) ELSE SubFrom(a, b, 1, 0)

RECURSIVE MulFrom(_, _, _, _)
MulFrom(a, c, i, carry) ==
    IF i > U64Limbs THEN << <<>>, carry >>
    ELSE LET t    == a[i] * c + carry
             rest == MulFrom(a, c, i + 1, t \div LimbBase)
         IN  << <<t % LimbBase>> \o rest[1], rest[2] >>

\* a * c on u64 as a release build computes it: the low 64 bits.
wrapping_mul(a, c) == MulFrom(a, c, 1, 0)[1]

\* Whether a * c exceeds 64 bits (a build with overflow checks panics).
mul_overflows(a, c) == MulFrom(a, c, 1, 0)[2] # 0

\* ------------------------------------------------------------------ strings

to_lowercase_char(c) ==
    CASE c = "A" -> "a" [] c = "B" -> "b" [] c = "C" -> "c" [] c = "D" -> "d"
      [] c = "E" -> "e" [] c = "F" -> "f" [] c = "G" -> "g" [] c = "H" -> "h"
      [] c = "I" -> "i" [] c = "J" -> "j" [] c = "K" -> "k" [] c = "L" -> "l"
      [] c = "M" -> "m" [] c = "N" -> "n" [] c = "O" -> "o" [] c = "P" -> "p"
      [] c = "Q" -> "q" [] c = "R" -> "r" [] c = "S" -> "s" [] c = "T" -> "t"
      [] c = "U" -> "u" [] c = "V" -> "v" [] c = "W" -> "w" [] c = "X" -> "x"
      [] c = "Y" -> "y" [] c = "Z" -> "z" [] OTHER -> c

to_lowercase(s) == [i \in 1..Len(s) |-> to_lowercase_char(s[i])]

\* s[pos..], pos a 0-based offset.
SliceFrom(s, pos) == SubSeq(s, pos + 1, Len(s))

starts_with(s, pre) ==
    Len(pre) <= Len(s) /\ SubSeq(s, 1, Len(pre)) = pre

ends_with(s, suf) ==
    Len(suf) <= Len(s) /\ SubSeq(s, Len(s) - Len(suf) + 1, Len(s)) = suf

\* The 0-based offsets at which needle occurs in s.
Occurrences(s, needle) ==
    {k \in 0..(Len(s) - Len(needle)) : SubSeq(s, k + 1, k + Len(needle)) = needle}

contains(s, needle) == Occurrences(s, needle) # {}

\* str::find: <<>> or <<the first offset>>.
find(s, needle) ==
    IF Occurrences(s, needle) = {} THEN <<>>
    ELSE <<CHOOSE k \in Occurrences(s, needle) :
               \A j \in Occurrences(s, needle) : k <= j>>

RECURSIVE split(_, _)
\* str::split(sep).collect(): never empty; "" splits to [""].
split(s, sep) ==
    IF \A i \in 1..Len(s) : s[i] # sep THEN <<s>>
    ELSE LET k == CHOOSE i \in 1..Len(s) :
                      s[i] = sep /\ \A j \in 1..(i - 1) : s[j] # sep
         IN  <<SubSeq(s, 1, k - 1)>> \o split(SubSeq(s, k + 1, Len(s)), sep)

\* The characters of the paths and labels, in the order of their codes
Ascii ==
    <<" ", ".", "/", "0", "1", "2", "3", "4", "5", "6", "7", "8", "9", "A", "B", "C", "D", "E", "F", "G", "H", "I", "J", "K", "L", "M", "N", "O", "P", "Q", "R", "S", "T", "U", "V", "W", "X", "Y", "Z", "_", "a", "b", "c", "d", "e", "f", "g", "h", "i", "j", "k", "l", "m", "n", "o", "p", "q", "r", "s", "t", "u", "v", "w", "x", "y", "z">>

char_code(c) == CHOOSE k \in 1..Len(Ascii) : Ascii[k] = c

RECURSIVE str_less_from(_, _, _)
str_less_from(a, b, i) ==
    IF i > Len(a) THEN i <= Len(b)
    ELSE IF i > Len(b) THEN FALSE
    ELSE IF a[i] # b[i] THEN char_code(a[i]) < char_code(b[i])
    ELSE str_less_from(a, b, i + 1)

\* a.cmp(&b) == Ordering::Less on strings: byte by byte, a prefix first
str_less(a, b) == str_less_from(a, b, 1)

\* -------------------------------------------------------------- rule engine

RECURSIVE wildcard_loop(_, _, _, _)
wildcard_loop(parts, text_lower, i, text_pos) ==
    IF i > Len(parts) THEN TRUE
    ELSE IF parts[i] = <<>> THEN wildcard_loop(parts, text_lower, i + 1, text_pos)
    ELSE LET part_lower == to_lowercase(parts[i])
         IN  IF i = 1
             THEN IF ~starts_with(text_lower, part_lower) THEN FALSE
                  ELSE wildcard_loop(parts, text_lower, i + 1, Len(part_lower))
             ELSE IF i = Len(parts)
             THEN ends_with(SliceFrom(text_lower, text_pos), part_lower)
             ELSE LET pos == find(SliceFrom(text_lower, text_pos), part_lower)
                  IN  IF pos = <<>> THEN FALSE
                      ELSE wildcard_loop(parts, text_lower, i + 1,
                                         text_pos + pos[1] + Len(part_lower))

wildcard_match(pattern, text) ==
    IF pattern = <<"*">> THEN TRUE
    ELSE IF ~contains(pattern, <<"*">>) THEN pattern = text
    ELSE wildcard_loop(split(pattern, "*"), to_lowercase(text), 1, 0)

\* pattern_matches that compares a pattern without '*' to the whole path (a
\* variant)
pattern_matches_whole_path(path, pattern) ==
    IF contains(pattern, <<"*">>) THEN wildcard_match(pattern, path)
    ELSE to_lowercase(path) = to_lowercase(pattern)

pattern_matches(path, pattern) ==
    IF contains(pattern, <<"*">>) THEN wildcard_match(pattern, path)
    ELSE contains(to_lowercase(path), to_lowercase(pattern))

\* types.iter().any(|t| file_type.to_lowercase().contains(&t.to_lowercase()))
any_type(types, file_type) ==
    \E k \in 1..Len(types) :
        contains(to_lowercase(file_type), to_lowercase(types[k]))

\* patterns.iter().any(|pattern| pattern_matches(&file.path, pattern))
any_pattern(patterns, path) ==
    \E k \in 1..Len(patterns) : pattern_matches(path, patterns[k])

max_age_secs_of(rule) == wrapping_mul(rule.max_age_days, 86400)

min_size_bytes_of(rule) == wrapping_mul(wrapping_mul(rule.min_size_mb, 1024), 1024)

max_size_bytes_of(rule) ==
    IF rule.max_size_mb = <<>> THEN <<>>
    ELSE <<wrapping_mul(wrapping_mul(rule.max_size_mb[1], 1024), 1024)>>

\* Whether one of the three threshold products of apply_rules overflows.
threshold_overflows(rule) ==
    \/ mul_overflows(rule.max_age_days, 86400)
    \/ mul_overflows(rule.min_size_mb, 1024)
    \/ mul_overflows(wrapping_mul(rule.min_size_mb, 1024), 1024)
    \/ /\ rule.max_size_mb # <<>>
       /\ \/ mul_overflows(rule.max_size_mb[1], 1024)
          \/ mul_overflows(wrapping_mul(rule.max_size_mb[1], 1024), 1024)

matches_rule_no_hidden_check(file, rule, max_age_secs, min_size_bytes, max_size_bytes, now_secs) ==
    /\ ~Less(saturating_sub(now_secs, file.last_access_secs), max_age_secs)
    /\ ~Less(file.size, min_size_bytes)
    /\ (max_size_bytes # <<>> => ~Less(max_size_bytes[1], file.size))
    /\ (file.is_readonly => rule.include_readonly)
    /\ (file.is_executable => rule.include_executable)
    /\ (rule.file_types # <<>> => any_type(rule.file_types[1], file.file_type))
    /\ (rule.exclude_file_types # <<>> =>
            ~any_type(rule.exclude_file_types[1], file.file_type))
    /\ (rule.custom_patterns # <<>> => any_pattern(rule.custom_patterns, file.path))
    /\ (rule.exclude_patterns # <<>> => ~any_pattern(rule.exclude_patterns, file.path))

matches_rule(file, rule, max_age_secs, min_size_bytes, max_size_bytes, now_secs) ==
    LET file_age_secs == saturating_sub(now_secs, file.last_access_secs)
    IN  IF Less(file_age_secs, max_age_secs) THEN FALSE
        ELSE IF Less(file.size, min_size_bytes) THEN FALSE
        ELSE IF max_size_bytes # <<>> /\ Less(max_size_bytes[1], file.size) THEN FALSE
        ELSE IF file.is_hidden /\ ~rule.include_hidden THEN FALSE
        ELSE IF file.is_readonly /\ ~rule.include_readonly THEN FALSE
        ELSE IF file.is_executable /\ ~rule.include_executable THEN FALSE
        ELSE IF rule.file_types # <<>>
                /\ ~any_type(rule.file_types[1], file.file_type) THEN FALSE
        ELSE IF rule.exclude_file_types # <<>>
                /\ any_type(rule.exclude_file_types[1], file.file_type) THEN FALSE
        ELSE IF rule.custom_patterns # <<>>
                /\ ~any_pattern(rule.custom_patterns, file.path) THEN FALSE
        ELSE IF rule.exclude_patterns # <<>>
                /\ any_pattern(rule.exclude_patterns, file.path) THEN FALSE
        ELSE TRUE

RECURSIVE apply_loop_push_front(_, _, _, _)
apply_loop_push_front(files, rule, now_secs, i) ==
    IF i > Len(files) THEN <<>>
    ELSE LET rest == apply_loop_push_front(files, rule, now_secs, i + 1)
         IN  IF ~matches_rule(files[i], rule, max_age_secs_of(rule),
                              min_size_bytes_of(rule), max_size_bytes_of(rule), now_secs)
             THEN rest
             ELSE rest \o <<files[i]>>

RECURSIVE apply_loop(_, _, _, _)
\* The for loop of apply_rules from index i on: the records pushed, in order.
apply_loop(files, rule, now_secs, i) ==
    IF i > Len(files) THEN <<>>
    ELSE LET rest == apply_loop(files, rule, now_secs, i + 1)
         IN  IF ~matches_rule(files[i], rule, max_age_secs_of(rule),
                              min_size_bytes_of(rule), max_size_bytes_of(rule), now_secs)
             THEN rest
             ELSE <<files[i]>> \o rest

apply_rules_reversed(files, rule, now_secs) == apply_loop_push_front(files, rule, now_secs, 1)

apply_rules(files, rule, now_secs) == apply_loop(files, rule, now_secs, 1)

\* ------------------------------------------------ rule engine: state machine

VARIABLES
    files,            \* the record collection handed to apply_rules
    rule,             \* the caller's RuleConfig
    now_secs,         \* the clock apply_rules reads
    overflow_checks,  \* whether the build panics on integer overflow
    run,              \* the last call of apply_rules: its rule and its result
    prev_run,         \* the call before it
    edits,            \* RuleConfig fields changed so far
    rstatus           \* "idle", "returned" or "panicked"

ruleVars == <<files, rule, now_secs, overflow_checks, run, prev_run, edits, rstatus>>

VARIABLES
    io_error,         \* the io::Error handed to the conversion, <<>> before one is
    converted,        \* the FileActionError it was converted to, <<>> before that
    fs,               \* the filesystem: path -> entry (kind, content, readonly)
    dirs,             \* the directories that exist under the home directory
    env_home,         \* the HOME environment variable, <<>> when it is unset
    last,             \* the last file action: operation, path, result, state before
    calls,            \* file actions called so far
    trash_log         \* the trash entries made by successful calls, with their origin

errVars == <<io_error, converted>>

VARIABLES
    input,            \* the arguments of a call of a function that only reads
    output            \* what the call returned, <<>> before it has

VARIABLES
    app,              \* the TrashDoctor application state
    pending,          \* the messages its commands have still to deliver
    procs,            \* the archive_file calls in progress, each with its position
    archive_log       \* the archive entries written so far, with their content

fsVars == <<fs, dirs, env_home, last, calls, trash_log>>

progVars == <<app, pending, procs, archive_log>>

ProgVarsUnused == app = <<>> /\ pending = <<>> /\ procs = <<>> /\ archive_log = {}

callVars == <<input, output>>

CallVarsUnused == input = <<>> /\ output = <<>>

ErrVarsUnused == io_error = <<>> /\ converted = <<>>

FsVarsUnused ==
    /\ fs = <<>>
    /\ dirs = {}
    /\ env_home = <<>>
    /\ last = <<>>
    /\ calls = 0
    /\ trash_log = {}

\* RuleConfig::default()
DefaultRule ==
    [ max_age_days       |-> U64(0),
      min_size_mb        |-> U64(0),
      max_size_mb        |-> <<>>,
      file_types         |-> <<>>,
      exclude_file_types |-> <<>>,
      include_hidden     |-> FALSE,
      include_readonly   |-> FALSE,
      include_executable |-> FALSE,
      custom_patterns    |-> <<>>,
      exclude_patterns   |-> <<>> ]

FileInfo(path, size, last_access_secs, file_type, is_hidden, is_readonly, is_executable) ==
    [ path             |-> path,
      size             |-> size,
      last_access_secs |-> last_access_secs,
      file_type        |-> file_type,
      is_hidden        |-> is_hidden,
      is_readonly      |-> is_readonly,
      is_executable    |-> is_executable ]

\* Records as the scanner builds them (the label and the hidden flag follow the
\* path), around the thresholds of the application's first rule: 30 days, 100 MB.
SampleRecords ==
    { FileInfo(<<"/", "u", "/", "D", "l", "/", "a", ".", "z", "i", "p">>,
               U64(524288000), U64(0),
               <<"A", "r", "c", "h", "i", "v", "e">>, FALSE, FALSE, FALSE),
      FileInfo(<<"/", "u", "/", "d", "t", "/", "b", ".", "J", "P", "G">>,
               U64(104857599), U64(864000),
               <<"I", "m", "a", "g", "e">>, FALSE, FALSE, FALSE),
      FileInfo(<<"/", "u", "/", ".", "c">>,
               U64(104857600), U64(864001),
               <<"N", "o", " ", "E", "x", "t", "e", "n", "s", "i", "o", "n">>,
               TRUE, FALSE, FALSE),
      FileInfo(<<"/", "u", "/", "D", "l", "/", "r", "u", "n">>,
               U64(0), U64(9999999),
               <<"N", "o", " ", "E", "x", "t", "e", "n", "s", "i", "o", "n">>,
               FALSE, TRUE, TRUE) }

RECURSIVE SeqsUpTo(_, _)
SeqsUpTo(S, n) ==
    IF n = 0 THEN {<<>>}
    ELSE LET shorter == SeqsUpTo(S, n - 1)
         IN  shorter \cup {Append(s, x) : s \in shorter, x \in S}

\* Values the caller may type into the age field (main.rs parses any u64):
\* 2^57 days exceed 64 bits once multiplied by 86400.
AgeChoices == { U64(0), U64(30), U64(31), Pow2(57) }

\* Values for the size fields: 2^44 MB is 2^64 bytes.
SizeChoices == { U64(0), U64(100), U64(500), Pow2(44) }

MaxSizeChoices == { <<>>, <<U64(100)>>, <<Pow2(44)>> }

FileTypesChoices == { <<>>, << <<>> >>, << << <<"i", "m", "a", "g", "e">> >> >> }

ExcludeFileTypesChoices == { <<>>, << << <<"a", "r", "c", "h">>, <<"E", "X", "T">> >> >> }

CustomPatternsChoices == { <<>>, << <<"*", "/", "d", "l", "/", "*">> >> }

ExcludePatternsChoices == { <<>>, << <<".", "Z", "I", "P">>, <<"/", "u", "/", ".", "*">> >> }

\* 40 days after the epoch.
NowChoices == { U64(3456000) }

\* The rule of the application once it has scanned: RuleConfig::default() with
\* the age and size fields parsed from "30" and "100".
AppRule == [DefaultRule EXCEPT !.max_age_days = U64(30), !.min_size_mb = U64(100)]

NoRun == [ done |-> FALSE, rule |-> DefaultRule, result |-> <<>> ]

RuleVarsUnused ==
    /\ files = <<>>
    /\ rule = DefaultRule
    /\ now_secs = U64(0)
    /\ overflow_checks = FALSE
    /\ run = NoRun
    /\ prev_run = NoRun
    /\ edits = 0
    /\ rstatus = "idle"

InitRuleVars ==
    /\ files \in SeqsUpTo(SampleRecords, MaxFiles)
    /\ rule \in {DefaultRule, AppRule}
    /\ now_secs \in NowChoices
    /\ overflow_checks \in BOOLEAN
    /\ run = NoRun
    /\ prev_run = NoRun
    /\ edits = 0
    /\ rstatus = "idle"
    /\ ErrVarsUnused
    /\ FsVarsUnused
    /\ ProgVarsUnused
    /\ CallVarsUnused

\* What a call apply_rules(&files, &r) leaves: a panic on a threshold overflow
\* in a build with overflow checks, otherwise the filtered collection.
Filter(r) ==
    IF overflow_checks /\ threshold_overflows(r)
    THEN /\ rstatus' = "panicked"
         /\ UNCHANGED <<run, prev_run>>
    ELSE /\ rstatus' = "returned"
         /\ prev_run' = run
         /\ run' = [ done |-> TRUE, rule |-> r,
                     result |-> apply_rules(files, r, now_secs) ]

\* The caller changes one field of its RuleConfig and filters again, as the
\* ChangeAge and ChangeSize handlers do through scan_and_filter.
Edit(r) ==
    /\ rstatus # "panicked"
    /\ edits < MaxEdits
    /\ r # rule
    /\ rule' = r
    /\ edits' = edits + 1
    /\ Filter(r)
    /\ UNCHANGED <<files, now_secs, overflow_checks, errVars, fsVars, callVars, progVars>>

SetMaxAgeDays == \E m \in AgeChoices : Edit([rule EXCEPT !.max_age_days = m])

SetMinSizeMb == \E m \in SizeChoices : Edit([rule EXCEPT !.min_size_mb = m])

SetMaxSizeMb == \E o \in MaxSizeChoices : Edit([rule EXCEPT !.max_size_mb = o])

SetIncludeHidden == \E b \in BOOLEAN : Edit([rule EXCEPT !.include_hidden = b])

SetIncludeReadonly == \E b \in BOOLEAN : Edit([rule EXCEPT !.include_readonly = b])

SetIncludeExecutable == \E b \in BOOLEAN : Edit([rule EXCEPT !.include_executable = b])

SetFileTypes == \E o \in FileTypesChoices : Edit([rule EXCEPT !.file_types = o])

SetExcludeFileTypes ==
    \E o \in ExcludeFileTypesChoices : Edit([rule EXCEPT !.exclude_file_types = o])

SetCustomPatterns ==
    \E l \in CustomPatternsChoices : Edit([rule EXCEPT !.custom_patterns = l])

SetExcludePatterns ==
    \E l \in ExcludePatternsChoices : Edit([rule EXCEPT !.exclude_patterns = l])

\* apply_rules(&files, &rule) with the rule as it stands.
ApplyRules ==
    /\ rstatus # "panicked"
    /\ Filter(rule)
    /\ UNCHANGED <<files, rule, now_secs, overflow_checks, edits, errVars, fsVars, callVars,
                   progVars>>

NextRules ==
    \/ SetMaxAgeDays
    \/ SetMinSizeMb
    \/ SetMaxSizeMb
    \/ SetIncludeHidden
    \/ SetIncludeReadonly
    \/ SetIncludeExecutable
    \/ SetFileTypes
    \/ SetExcludeFileTypes
    \/ SetCustomPatterns
    \/ SetExcludePatterns
    \/ ApplyRules

vars == <<ruleVars, errVars, fsVars, callVars, progVars>>

SpecRules == InitRuleVars /\ [][NextRules]_vars

\* ------------------------------------------------------- rule engine: claims

Range(s) == {s[i] : i \in 1..Len(s)}

RECURSIVE SubsequenceFrom(_, _, _, _)
\* Whether sub[i..] can be read off seq[j..] from left to right.
SubsequenceFrom(sub, i, seq, j) ==
    IF i > Len(sub) THEN TRUE
    ELSE IF j > Len(seq) THEN FALSE
    ELSE IF sub[i] = seq[j] THEN SubsequenceFrom(sub, i + 1, seq, j + 1)
    ELSE SubsequenceFrom(sub, i, seq, j + 1)

IsSubsequence(sub, seq) == SubsequenceFrom(sub, 1, seq, 1)

\* x >= m * c over the naturals, x and m u64, c below 2^23.
AtLeastProduct(x, m, c) ==
    /\ MulFrom(m, c, 1, 0)[2] = 0
    /\ ~Less(x, MulFrom(m, c, 1, 0)[1])

\* x <= m * c over the naturals.
AtMostProduct(x, m, c) ==
    \/ MulFrom(m, c, 1, 0)[2] # 0
    \/ ~Less(MulFrom(m, c, 1, 0)[1], x)

\* The conjunction of section 4.2, written with the products it names.
Keeps(file, r, now) ==
    /\ AtLeastProduct(saturating_sub(now, file.last_access_secs), r.max_age_days, 86400)
    /\ AtLeastProduct(file.size, r.min_size_mb, 1048576)
    /\ (r.max_size_mb # <<>> => AtMostProduct(file.size, r.max_size_mb[1], 1048576))
    /\ (~file.is_hidden \/ r.include_hidden)
    /\ (~file.is_readonly \/ r.include_readonly)
    /\ (~file.is_executable \/ r.include_executable)
    /\ (r.file_types # <<>> =>
            \E k \in 1..Len(r.file_types[1]) :
                contains(to_lowercase(file.file_type), to_lowercase(r.file_types[1][k])))
    /\ (r.exclude_file_types # <<>> =>
            \A k \in 1..Len(r.exclude_file_types[1]) :
                ~contains(to_lowercase(file.file_type),
                          to_lowercase(r.exclude_file_types[1][k])))
    /\ (r.custom_patterns # <<>> =>
            \E k \in 1..Len(r.custom_patterns) :
                pattern_matches(file.path, r.custom_patterns[k]))
    /\ (r.exclude_patterns # <<>> =>
            \A k \in 1..Len(r.exclude_patterns) :
                ~pattern_matches(file.path, r.exclude_patterns[k]))

\* C1: whenever apply_rules has returned, a record of the input is in the result
\* if and only if it satisfies every conjunct of the rule, the age and size
\* thresholds being max_age_days*86400 and *_size_mb*1048576.
C1_KeepsIffConjunction ==
    run.done =>
        \A i \in 1..Len(files) :
            (files[i] \in Range(run.result)) <=> Keeps(files[i], run.rule, now_secs)

\* C1 within the range where no threshold product exceeds 64 bits: there the
\* short-circuit chain of matches_rule is the conjunction.
C1_ConjunctionWithoutOverflow ==
    (run.done /\ ~threshold_overflows(run.rule)) =>
        \A i \in 1..Len(files) :
            (files[i] \in Range(run.result)) <=> Keeps(files[i], run.rule, now_secs)

\* C8: the collection apply_rules returns is a subsequence of its input: the
\* returned records are input records, unmodified, no more often than in the
\* input and in the input's order.
C8_ResultIsSubsequence ==
    run.done => IsSubsequence(run.result, files)

\* C8 witness: a call that returned two different records.
C8_Witness ==
    /\ run.done
    /\ Len(run.result) = 2
    /\ run.result[1] # run.result[2]

LessEq(a, b) == ~Less(b, a)

\* Rule b is rule a with min_size_mb or max_age_days raised.
ThresholdRaised(a, b) ==
    \/ /\ LessEq(a.min_size_mb, b.min_size_mb)
       /\ b = [a EXCEPT !.min_size_mb = b.min_size_mb]
    \/ /\ LessEq(a.max_age_days, b.max_age_days)
       /\ b = [a EXCEPT !.max_age_days = b.max_age_days]

\* C9: of two calls on the same records at the same time whose rules differ
\* only in a raised min_size_mb or max_age_days, the second matches a subset of
\* what the first matched.
C9_ThresholdMonotone ==
    (prev_run.done /\ run.done /\ ThresholdRaised(prev_run.rule, run.rule)) =>
        Range(run.result) \subseteq Range(prev_run.result)

\* Rule b is rule a with one inclusion toggle switched from false to true.
FlagRelaxed(a, b) ==
    \/ ~a.include_hidden /\ b = [a EXCEPT !.include_hidden = TRUE]
    \/ ~a.include_readonly /\ b = [a EXCEPT !.include_readonly = TRUE]
    \/ ~a.include_executable /\ b = [a EXCEPT !.include_executable = TRUE]

\* C10: no returned record carries a flag whose toggle is false, and of two
\* calls whose rules differ only in one toggle switched from false to true the
\* second returns everything the first returned.
C10_FlagMonotone ==
    /\ run.done =>
          \A r \in Range(run.result) :
              /\ r.is_hidden => run.rule.include_hidden
              /\ r.is_readonly => run.rule.include_readonly
              /\ r.is_executable => run.rule.include_executable
    /\ (prev_run.done /\ run.done /\ FlagRelaxed(prev_run.rule, run.rule)) =>
          IsSubsequence(prev_run.result, run.result)

\* C10 witness: switching a toggle on made the result grow by a flagged record.
C10_Witness ==
    /\ prev_run.done
    /\ run.done
    /\ FlagRelaxed(prev_run.rule, run.rule)
    /\ Len(run.result) > Len(prev_run.result)
    /\ \E r \in Range(run.result) : r.is_hidden \/ r.is_readonly \/ r.is_executable

\* ---------------------------------------------------------- error taxonomy

\* io::Error: the kind the runtime reports and the OS code, if any.
IoError(kind, raw, msg) == [ kind |-> kind, raw |-> raw, msg |-> msg ]

PermissionDenied == [ variant |-> "PermissionDenied", msg |-> <<>> ]

FileNotFound == [ variant |-> "FileNotFound", msg |-> <<>> ]

InsufficientSpace == [ variant |-> "InsufficientSpace", msg |-> <<>> ]

FileInUse == [ variant |-> "FileInUse", msg |-> <<>> ]

Other(msg) == [ variant |-> "Other", msg |-> msg ]

Ok == [ variant |-> "Ok", msg |-> <<>> ]

\* impl From<io::Error> for FileActionError
from_io_error(error) ==
    IF error.kind = "PermissionDenied" THEN PermissionDenied
    ELSE IF error.kind = "NotFound" THEN FileNotFound
    ELSE IF error.kind = "Other"
         THEN IF error.raw # <<>>
              THEN IF error.raw[1] = 28 THEN InsufficientSpace
                   ELSE IF error.raw[1] = 16 THEN FileInUse
                   ELSE Other(error.msg)
              ELSE Other(error.msg)
    ELSE Other(error.msg)

\* What ErrorKind the runtime's decode_error_kind gives an OS code. Runtimes
\* older than the one that introduced StorageFull, ResourceBusy and the other
\* new kinds report every unclassified code as Other; later ones never do.
decode_error_kind(errno, legacy) ==
    IF errno \in {1, 13} THEN "PermissionDenied"
    ELSE IF errno = 2 THEN "NotFound"
    ELSE IF errno = 4 THEN "Interrupted"
    ELSE IF errno = 11 THEN "WouldBlock"
    ELSE IF errno = 17 THEN "AlreadyExists"
    ELSE IF errno = 22 THEN "InvalidInput"
    ELSE IF errno = 32 THEN "BrokenPipe"
    ELSE IF legacy THEN "Other"
    ELSE IF errno = 16 THEN "ResourceBusy"
    ELSE IF errno = 18 THEN "CrossesDevices"
    ELSE IF errno = 20 THEN "NotADirectory"
    ELSE IF errno = 21 THEN "IsADirectory"
    ELSE IF errno = 28 THEN "StorageFull"
    ELSE IF errno = 30 THEN "ReadOnlyFilesystem"
    ELSE IF errno = 39 THEN "DirectoryNotEmpty"
    ELSE "Uncategorized"

Digits == <<"0", "1", "2", "3", "4", "5", "6", "7", "8", "9">>

\* Display of an integer
RECURSIVE to_string(_)
to_string(n) ==
    IF n < 10 THEN <<Digits[n + 1]>>
    ELSE to_string(n \div 10) \o <<Digits[(n % 10) + 1]>>

\* io::Error::from_raw_os_error as the runtime reports it
os_error(errno, legacy) ==
    IoError(decode_error_kind(errno, legacy), <<errno>>,
            <<"os error ">> \o to_string(errno))

\* io::Error::new(kind, message)
custom_error(kind, msg) == IoError(kind, <<>>, <<msg>>)

MaxErrno == 40

CustomKinds == {"NotFound", "PermissionDenied", "InvalidInput", "UnexpectedEof", "Other"}

IoErrors ==
    {os_error(n, l) : n \in 1..MaxErrno, l \in BOOLEAN}
        \cup {custom_error(k, "custom") : k \in CustomKinds}

InitErr ==
    /\ io_error \in {<<e>> : e \in IoErrors}
    /\ converted = <<>>
    /\ RuleVarsUnused
    /\ FsVarsUnused
    /\ ProgVarsUnused
    /\ CallVarsUnused

\* error.into() / the ? operator on an io::Result
Convert ==
    /\ converted = <<>>
    /\ converted' = <<from_io_error(io_error[1])>>
    /\ UNCHANGED <<io_error, ruleVars, fsVars, callVars, progVars>>

NextErr == Convert

SpecErr == InitErr /\ [][NextErr]_vars

\* ------------------------------------------------- error taxonomy: claims

\* The conversion as the taxonomy describes it: the OS codes 28 and 16 decide
\* first, whatever the kind.
ConversionByCode(error) ==
    IF error.raw = <<28>> THEN InsufficientSpace
    ELSE IF error.raw = <<16>> THEN FileInUse
    ELSE IF error.kind = "PermissionDenied" THEN PermissionDenied
    ELSE IF error.kind = "NotFound" THEN FileNotFound
    ELSE Other(error.msg)

\* C6: every io::Error converts to exactly one of the five kinds: permission
\* denied to PermissionDenied, not found to FileNotFound, OS code 28 to
\* InsufficientSpace and OS code 16 to FileInUse whatever kind the runtime
\* reports for them, and anything else to Other with the original message.
C6_ConversionByCode ==
    converted # <<>> => converted[1] = ConversionByCode(io_error[1])

\* ------------------------------------------------------------- filesystem

\* A path is the directory it is in and its last component; "/" has none.
PathOf(dir, name) == [ dir |-> dir, name |-> name ]

Root == PathOf(<<>>, <<>>)

\* A filesystem entry
Entry(kind, content, readonly) ==
    [ kind |-> kind, content |-> content, readonly |-> readonly ]

World(f, d) == [ fs |-> f, dirs |-> d ]

\* Path::exists
exists(w, path) == path = Root \/ path \in DOMAIN w.fs

is_dir(w, path) == path = Root \/ w.fs[path].kind = "dir"

\* metadata.permissions().readonly()
readonly(w, path) == path # Root /\ w.fs[path].readonly

Put(f, path, entry) ==
    [ q \in DOMAIN f \cup {path} |-> IF q = path THEN entry ELSE f[q] ]

Remove(f, path) == [ q \in DOMAIN f \ {path} |-> f[q] ]

\* An injected OS failure: <<>> for none, else the call it hits and the code.
Fault(at, errno) == <<[ at |-> at, errno |-> errno ]>>

fails(fault, at) == fault # <<>> /\ fault[1].at = at

\* The outcome of one system call: the world it leaves and its io::Error.
Done(w) == [ fs |-> w.fs, dirs |-> w.dirs, err |-> <<>> ]

Failed(w, e) == [ fs |-> w.fs, dirs |-> w.dirs, err |-> <<e>> ]

\* std::fs::create_dir_all: succeeds on a directory that is there
fs_create_dir_all(w, dir, fault, legacy) ==
    IF dir \in w.dirs THEN Done(w)
    ELSE IF fails(fault, "create_dir_all")
    THEN Failed(w, os_error(fault[1].errno, legacy))
    ELSE Done(World(w.fs, w.dirs \cup {dir}))

\* What a write that ran out of space leaves of a file
Truncated == <<>>

\* std::fs::copy: refuses a source that is no regular file, creates the
\* destination with the source's permissions or truncates the one that is
\* there (which a read-only one does not allow), then copies the content.
fs_copy(w, from, to, fault, legacy) ==
    IF is_dir(w, from)
    THEN Failed(w, custom_error("InvalidInput", "the source path is not a regular file"))
    ELSE IF exists(w, to) /\ readonly(w, to) THEN Failed(w, os_error(13, legacy))
    ELSE IF fails(fault, "copy")
    THEN Failed(World(Put(w.fs, to, Entry("file", Truncated, w.fs[from].readonly)), w.dirs),
                os_error(fault[1].errno, legacy))
    ELSE Done(World(Put(w.fs, to, Entry("file", w.fs[from].content, w.fs[from].readonly)),
                    w.dirs))

\* std::fs::remove_file: unlink fails on a directory
fs_remove_file(w, path, fault, legacy) ==
    IF is_dir(w, path) THEN Failed(w, os_error(21, legacy))
    ELSE IF fails(fault, "remove_file")
    THEN Failed(w, os_error(fault[1].errno, legacy))
    ELSE Done(World(Remove(w.fs, path), w.dirs))

\* std::fs::rename
fs_rename(w, from, to, fault, legacy) ==
    IF ~exists(w, from) THEN Failed(w, os_error(2, legacy))
    ELSE IF fails(fault, "rename")
    THEN Failed(w, os_error(fault[1].errno, legacy))
    ELSE Done(World(Put(Remove(w.fs, from), to, w.fs[from]), w.dirs))

\* std::fs::write: creates the file or truncates the one that is there
fs_write(w, path, contents, fault, legacy) ==
    IF exists(w, path) /\ is_dir(w, path) THEN Failed(w, os_error(21, legacy))
    ELSE IF exists(w, path) /\ readonly(w, path) THEN Failed(w, os_error(13, legacy))
    ELSE IF fails(fault, "write")
    THEN Failed(World(Put(w.fs, path, Entry("file", Truncated, FALSE)), w.dirs),
                os_error(fault[1].errno, legacy))
    ELSE Done(World(Put(w.fs, path, Entry("file", contents, FALSE)), w.dirs))

\* ------------------------------------------------------------ path naming

\* Path::file_name: <<>> for None
file_name(path) == IF path.name = <<>> THEN <<>> ELSE <<path.name>>

RECURSIVE rfind_dot(_, _)
rfind_dot(name, i) ==
    IF i = 0 THEN 0
    ELSE IF name[i] = "." THEN i
    ELSE rfind_dot(name, i - 1)

\* Path::file_stem of a file name: all of it when it has no dot past its
\* first character
file_stem(name) ==
    LET dot == rfind_dot(name, Len(name))
    IN  IF name = <<".", ".">> \/ dot <= 1 THEN name
        ELSE SubSeq(name, 1, dot - 1)

\* Path::extension of a file name: <<>> for None
extension(name) ==
    LET dot == rfind_dot(name, Len(name))
    IN  IF name = <<".", ".">> \/ dot <= 1 THEN <<>>
        ELSE <<SubSeq(name, dot + 1, Len(name))>>

unwrap_or_default(option) == IF option = <<>> THEN <<>> ELSE option[1]

\* format!("{}_{}.{}") written after the extension (a variant)
numbered_after_extension(filename, counter) ==
    filename \o <<"_">> \o to_string(counter)

\* The name the collision loop builds for a counter value
numbered(filename, counter) ==
    LET stem == unwrap_or_default(<<file_stem(filename)>>)
        ext == unwrap_or_default(extension(filename))
    IN  IF ext = <<>> THEN stem \o <<"_">> \o to_string(counter)
        ELSE stem \o <<"_">> \o to_string(counter) \o <<".">> \o ext

\* The while loop over path.exists(): the first candidate that is not there.
\* The counter is an i32; the model never holds the 2^31 entries that would
\* overflow it.
RECURSIVE free_path(_, _, _, _, _)
free_path(w, dir, filename, counter, path) ==
    IF ~exists(w, path) THEN path
    ELSE free_path(w, dir, filename, counter + 1,
                   PathOf(dir, numbered(filename, counter)))

\* ----------------------------------------------------------- file actions

\* What an action leaves: the world and Ok or the FileActionError
Result(w, ret) == [ fs |-> w.fs, dirs |-> w.dirs, ret |-> ret ]

\* env::var("HOME").unwrap_or_else(|_| "/tmp".to_string())
home_dir(home_var) == IF home_var = <<>> THEN "/tmp" ELSE home_var[1]

\* format!("{}/.trashdoctor/archive", home)
archive_dir(home) == <<home, ".trashdoctor", "archive">>

\* format!("{}/.local/share/Trash/files", home)
trash_dir(home) == <<home, ".local", "share", "Trash", "files">>

\* format!("{}/.local/share/Trash/info", home)
trash_info_dir(home) == <<home, ".local", "share", "Trash", "info">>

DotTrashinfo == <<".", "t", "r", "a", "s", "h", "i", "n", "f", "o">>

\* {:0width$}
RECURSIVE zero_padded(_, _)
zero_padded(n, width) ==
    LET digits == to_string(n)
    IN  IF Len(digits) >= width THEN digits
        ELSE <<"0">> \o zero_padded(n, width - 1)

\* Local::now().format("%Y-%m-%dT%H:%M:%S")
format_deletion_date(now) ==
    zero_padded(now.year, 4) \o <<"-">> \o zero_padded(now.month, 2) \o <<"-">>
        \o zero_padded(now.day, 2) \o <<"T">> \o zero_padded(now.hour, 2) \o <<":">>
        \o zero_padded(now.minute, 2) \o <<":">> \o zero_padded(now.second, 2)

\* format!("[Trash Info]\nPath={}\nDeletionDate={}\n", ..), line by line
trash_info_content(path, now) ==
    << <<"[Trash Info]">>,
       <<"Path=", path>>,
       <<"DeletionDate=">> \o format_deletion_date(now) >>

\* delete_file that goes straight to the removal (a variant)
delete_file_without_readonly_check(w, path, fault, legacy) ==
    IF ~exists(w, path) THEN Result(w, FileNotFound)
    ELSE LET removed == fs_remove_file(w, path, fault, legacy)
         IN  IF removed.err # <<>> THEN Result(removed, from_io_error(removed.err[1]))
             ELSE Result(removed, Ok)

\* pub fn delete_file
delete_file(w, path, fault, legacy) ==
    IF ~exists(w, path) THEN Result(w, FileNotFound)
    ELSE IF readonly(w, path) THEN Result(w, PermissionDenied)
    ELSE LET removed == fs_remove_file(w, path, fault, legacy)
         IN  IF removed.err # <<>> THEN Result(removed, from_io_error(removed.err[1]))
             ELSE Result(removed, Ok)

\* archive_file that makes the archive directory before it looks for the
\* source (a variant)
archive_file_directory_first(w, path, fault, legacy, home) ==
    LET dir == archive_dir(home)
        made == fs_create_dir_all(w, dir, fault, legacy)
    IN
    IF made.err # <<>> THEN Result(made, from_io_error(made.err[1]))
    ELSE IF ~exists(made, path) THEN Result(made, FileNotFound)
    ELSE IF file_name(path) = <<>> THEN Result(made, Other(<<"Invalid file path">>))
    ELSE LET filename == file_name(path)[1]
             archive_path == free_path(made, dir, filename, 1, PathOf(dir, filename))
             copied == fs_copy(made, path, archive_path, fault, legacy)
         IN  IF copied.err # <<>> THEN Result(copied, from_io_error(copied.err[1]))
             ELSE delete_file(copied, path, fault, legacy)

\* archive_file that takes its copy back when the delete step fails (a
\* variant)
archive_file_undoing_copy(w, path, fault, legacy, home) ==
    LET dir == archive_dir(home)
        made == fs_create_dir_all(w, dir, fault, legacy)
    IN
    IF ~exists(w, path) THEN Result(w, FileNotFound)
    ELSE IF made.err # <<>> THEN Result(made, from_io_error(made.err[1]))
    ELSE IF file_name(path) = <<>> THEN Result(made, Other(<<"Invalid file path">>))
    ELSE LET filename == file_name(path)[1]
             archive_path == free_path(made, dir, filename, 1, PathOf(dir, filename))
             copied == fs_copy(made, path, archive_path, fault, legacy)
             deleted == delete_file(copied, path, fault, legacy)
         IN  IF copied.err # <<>> THEN Result(copied, from_io_error(copied.err[1]))
             ELSE IF deleted.ret # Ok THEN Result(made, deleted.ret)
             ELSE deleted

\* pub fn archive_file
archive_file(w, path, fault, legacy, home) ==
    LET dir == archive_dir(home)
        made == fs_create_dir_all(w, dir, fault, legacy)
    IN
    IF ~exists(w, path) THEN Result(w, FileNotFound)
    ELSE IF made.err # <<>> THEN Result(made, from_io_error(made.err[1]))
    ELSE IF file_name(path) = <<>> THEN Result(made, Other(<<"Invalid file path">>))
    ELSE LET filename == file_name(path)[1]
             archive_path == free_path(made, dir, filename, 1, PathOf(dir, filename))
             copied == fs_copy(made, path, archive_path, fault, legacy)
         IN  IF copied.err # <<>> THEN Result(copied, from_io_error(copied.err[1]))
             ELSE delete_file(copied, path, fault, legacy)

\* move_to_trash that names the sidecar after the source's file name, not
\* after the trash entry's (a variant)
move_to_trash_sidecar_by_source_name(w, path, fault, legacy, home, now) ==
    LET files_dir == trash_dir(home)
        info_dir == trash_info_dir(home)
        made == fs_create_dir_all(w, files_dir, fault, legacy)
    IN
    IF made.err # <<>> THEN Result(made, from_io_error(made.err[1]))
    ELSE
    LET made2 == fs_create_dir_all(made, info_dir, fault, legacy)
    IN
    IF made2.err # <<>> THEN Result(made2, from_io_error(made2.err[1]))
    ELSE IF file_name(path) = <<>> THEN Result(made2, Other(<<"Invalid file path">>))
    ELSE LET filename == file_name(path)[1]
             trash_path == free_path(made2, files_dir, filename, 1,
                                     PathOf(files_dir, filename))
             moved == fs_rename(made2, path, trash_path, fault, legacy)
         IN  IF moved.err # <<>> THEN Result(moved, from_io_error(moved.err[1]))
             ELSE LET trash_info_path == PathOf(info_dir, filename \o DotTrashinfo)
                      written == fs_write(moved, trash_info_path,
                                          trash_info_content(path, now), fault, legacy)
                  IN  IF written.err # <<>>
                      THEN Result(written, from_io_error(written.err[1]))
                      ELSE Result(written, Ok)

\* pub fn move_to_trash, the manual implementation
move_to_trash(w, path, fault, legacy, home, now) ==
    LET files_dir == trash_dir(home)
        info_dir == trash_info_dir(home)
        made == fs_create_dir_all(w, files_dir, fault, legacy)
    IN
    IF made.err # <<>> THEN Result(made, from_io_error(made.err[1]))
    ELSE
    LET made2 == fs_create_dir_all(made, info_dir, fault, legacy)
    IN
    IF made2.err # <<>> THEN Result(made2, from_io_error(made2.err[1]))
    ELSE IF file_name(path) = <<>> THEN Result(made2, Other(<<"Invalid file path">>))
    ELSE LET filename == file_name(path)[1]
             trash_path == free_path(made2, files_dir, filename, 1,
                                     PathOf(files_dir, filename))
             moved == fs_rename(made2, path, trash_path, fault, legacy)
         IN  IF moved.err # <<>> THEN Result(moved, from_io_error(moved.err[1]))
             ELSE LET trash_info_path == PathOf(info_dir, file_name(trash_path)[1] \o DotTrashinfo)
                      written == fs_write(moved, trash_info_path,
                                          trash_info_content(path, now), fault, legacy)
                  IN  IF written.err # <<>>
                      THEN Result(written, from_io_error(written.err[1]))
                      ELSE Result(written, Ok)

\* ------------------------------------------- file actions: state machine

MaxCalls == 2

ReportPdf == <<"r", "e", "p", "o", "r", "t", ".", "p", "d", "f">>

Notes == <<"n", "o", "t", "e", "s">>

NameChoices == {ReportPdf, Notes}

HomeChoices == {<<>>, <<"/home/u">>}

Work1 == <<"/w1">>

Work2 == <<"/w2">>

\* A path nothing is at
Missing == PathOf(Work1, <<"g", "o", "n", "e">>)

Data(id) == << <<id>> >>

\* The local time of the n-th call
ClockAt(n) ==
    IF n % 2 = 0
    THEN [ year |-> 2026, month |-> 11, day |-> 2, hour |-> 9, minute |-> 5,
           second |-> n % 60 ]
    ELSE [ year |-> 1999, month |-> 12, day |-> 31, hour |-> 23, minute |-> 59,
           second |-> 50 + (n % 10) ]

\* Where an earlier session's file of that name came from
Work0 == <<"/w0">>

\* Two files of one name in two folders, the second perhaps read-only, and
\* perhaps a file of that name that an earlier session archived or moved to
\* the trash.
InitialFs(name, ro, earlier, home) ==
    LET work == Put(Put(<<>>, PathOf(Work1, name), Entry("file", Data("c1"), FALSE)),
                    PathOf(Work2, name), Entry("file", Data("c2"), ro))
    IN  IF earlier = "archived"
        THEN Put(work, PathOf(archive_dir(home), name), Entry("file", Data("c0"), FALSE))
        ELSE IF earlier = "trashed"
        THEN Put(Put(work, PathOf(trash_dir(home), name),
                     Entry("file", Data("c0"), FALSE)),
                 PathOf(trash_info_dir(home), name \o DotTrashinfo),
                 Entry("file", trash_info_content(PathOf(Work0, name), ClockAt(1)), FALSE))
        ELSE work

InitialDirs(earlier, home) ==
    IF earlier = "archived" THEN {archive_dir(home)}
    ELSE IF earlier = "trashed" THEN {trash_dir(home), trash_info_dir(home)}
    ELSE {}

InitialTrashLog(name, earlier) ==
    IF earlier = "trashed"
    THEN {[ entry |-> name, path |-> PathOf(Work0, name), content |-> Data("c0") ]}
    ELSE {}

NoCall == [ op |-> "none", path |-> Root, ret |-> Ok, fs |-> <<>>, dirs |-> {},
            now |-> ClockAt(0) ]

InitFs ==
    /\ env_home \in HomeChoices
    /\ \E name \in NameChoices, ro \in BOOLEAN,
          earlier \in {"none", "archived", "trashed"} :
          /\ fs = InitialFs(name, ro, earlier, home_dir(env_home))
          /\ dirs = InitialDirs(earlier, home_dir(env_home))
          /\ trash_log = InitialTrashLog(name, earlier)
    /\ last = NoCall
    /\ calls = 0
    /\ RuleVarsUnused
    /\ ErrVarsUnused
    /\ CallVarsUnused
    /\ ProgVarsUnused

\* The OS failures injected: no permission to create a directory or to
\* unlink, no space left while copying or writing, a rename across devices.
FaultChoices ==
    {<<>>, Fault("create_dir_all", 13), Fault("copy", 28), Fault("remove_file", 13),
     Fault("rename", 18), Fault("write", 28)}

\* The injected failures that can hit one of the calls an action makes
FaultsAt(ats) == {<<>>} \cup {f \in FaultChoices \ {<<>>} : f[1].at \in ats}

\* The paths a caller names: anything that is there, "/", and a missing one.
\* Each action also draws legacy: whether the runtime the build links reports
\* unclassified OS errors as Other or by their later kinds.
CallerPaths == DOMAIN fs \cup {Root, Missing}

\* The tracked trash entries a call on path names, by entry or by sidecar
Named(path) ==
    { t \in trash_log :
        \/ path = PathOf(trash_dir(home_dir(env_home)), t.entry)
        \/ path = PathOf(trash_info_dir(home_dir(env_home)), t.entry \o DotTrashinfo) }

Call(op, path, r, trashed) ==
    /\ calls < MaxCalls
    /\ fs' = r.fs
    /\ dirs' = r.dirs
    /\ last' = [ op |-> op, path |-> path, ret |-> r.ret, fs |-> fs, dirs |-> dirs,
                 now |-> ClockAt(calls) ]
    /\ calls' = calls + 1
    /\ trash_log' = (trash_log \ Named(path)) \cup trashed
    /\ UNCHANGED <<env_home, ruleVars, errVars, callVars, progVars>>

\* The runtimes drawn for a call. from_io_error tells the two apart only
\* on the codes 28 and 16, so only a failure with one of them draws both.
RuntimesFor(fault) ==
    IF fault # <<>> /\ fault[1].errno \in {16, 28} THEN BOOLEAN ELSE {FALSE}

DeleteFile ==
    \E path \in CallerPaths, fault \in FaultsAt({"remove_file"}) :
        \E legacy \in RuntimesFor(fault) :
            Call("delete_file", path,
                 delete_file(World(fs, dirs), path, fault, legacy), {})

ArchiveFile ==
    \E path \in CallerPaths,
       fault \in FaultsAt({"create_dir_all", "copy", "remove_file"}) :
        \E legacy \in RuntimesFor(fault) :
            Call("archive_file", path,
                 archive_file(World(fs, dirs), path, fault, legacy, home_dir(env_home)),
                 {})

\* The trash entry a successful move_to_trash(path) made
Trashed(path, home) ==
    [ entry |-> free_path(World(fs, dirs), trash_dir(home), path.name, 1,
                          PathOf(trash_dir(home), path.name)).name,
      path |-> path,
      content |-> fs[path].content ]

MoveToTrash ==
    \E path \in CallerPaths,
       fault \in FaultsAt({"create_dir_all", "rename", "write"}) :
        \E legacy \in RuntimesFor(fault) :
            LET r == move_to_trash(World(fs, dirs), path, fault, legacy,
                                   home_dir(env_home), ClockAt(calls))
            IN  Call("move_to_trash", path, r,
                     IF r.ret = Ok THEN {Trashed(path, home_dir(env_home))} ELSE {})

\* scan_folder_with_options and apply_rules only read
ScanAndFilter ==
    Call("scan_and_filter", Root, Result(World(fs, dirs), Ok), {})

NextFs ==
    \/ DeleteFile
    \/ ArchiveFile
    \/ MoveToTrash
    \/ ScanAndFilter

SpecFs == InitFs /\ [][NextFs]_vars

\* --------------------------------------------------- file actions: claims

Home == home_dir(env_home)

\* Whether the last call's path was there when it was called, and read-only
Existed == last.path = Root \/ last.path \in DOMAIN last.fs

WasReadonly == last.path # Root /\ last.fs[last.path].readonly

InDir(f, dir) == {q \in DOMAIN f : q.dir = dir}

\* The entries of a directory that the last call added
NewIn(dir) == InDir(fs, dir) \ InDir(last.fs, dir)

\* C2 as stated: delete_file(p) returns FileNotFound for a missing p and
\* PermissionDenied for a read-only p, changing nothing in either case, and
\* otherwise removes p and returns success.
C2_DeleteRemovesOtherwise ==
    last.op = "delete_file" =>
        IF ~Existed THEN last.ret = FileNotFound /\ fs = last.fs /\ dirs = last.dirs
        ELSE IF WasReadonly
        THEN last.ret = PermissionDenied /\ fs = last.fs /\ dirs = last.dirs
        ELSE last.ret = Ok /\ last.path \notin DOMAIN fs

\* C2, amended: delete_file(p) returns FileNotFound for a missing p and
\* PermissionDenied for a read-only p, and otherwise attempts the removal:
\* when the OS removes p it returns success and only p is gone, when the OS
\* refuses it returns the error and p is still there. In every error case
\* the filesystem is unchanged.
C2_DeleteRemovesUnlessOsRefuses ==
    last.op = "delete_file" =>
        /\ dirs = last.dirs
        /\ IF ~Existed THEN last.ret = FileNotFound /\ fs = last.fs
           ELSE IF WasReadonly THEN last.ret = PermissionDenied /\ fs = last.fs
           ELSE \/ last.ret = Ok /\ last.path # Root /\ fs = Remove(last.fs, last.path)
                \/ last.ret \notin {Ok, FileNotFound} /\ fs = last.fs

\* A writable file that is there, whose removal the OS refused
C2_Witness ==
    /\ last.op = "delete_file"
    /\ last.path \in DOMAIN last.fs
    /\ ~WasReadonly
    /\ last.ret = PermissionDenied
    /\ last.path \in DOMAIN fs

\* C3: archive_file(p) returns FileNotFound for a missing p before it touches
\* the filesystem, the archive directory not even created; when it returns
\* success p is gone and the archive directory holds exactly one new entry,
\* with p's content.
C3_ArchiveOutcomes ==
    last.op = "archive_file" =>
        /\ ~Existed => last.ret = FileNotFound /\ fs = last.fs /\ dirs = last.dirs
        /\ last.ret = Ok =>
              /\ last.path \notin DOMAIN fs
              /\ archive_dir(Home) \in dirs
              /\ Cardinality(NewIn(archive_dir(Home))) = 1
              /\ \A e \in NewIn(archive_dir(Home)) :
                    fs[e].content = last.fs[last.path].content

\* A successful archive_file that had to create the archive directory
C3_Witness ==
    /\ last.op = "archive_file"
    /\ last.ret = Ok
    /\ archive_dir(Home) \notin last.dirs
    /\ NewIn(archive_dir(Home)) # {}

\* The place of the last dot of a name, 0 when it has none
LastDot(name) ==
    LET dots == {i \in 1..Len(name) : name[i] = "."}
    IN  IF dots = {} THEN 0 ELSE CHOOSE i \in dots : \A j \in dots : j <= i

\* The n-th name of the sequence name, stem_1.ext, stem_2.ext, ...
Candidate(name, n) ==
    IF n = 0 THEN name
    ELSE IF LastDot(name) <= 1 THEN name \o <<"_">> \o to_string(n)
    ELSE SubSeq(name, 1, LastDot(name) - 1) \o <<"_">> \o to_string(n)
             \o SubSeq(name, LastDot(name), Len(name))

\* The first name of that sequence that is not among taken
FirstFree(name, taken) ==
    Candidate(name, CHOOSE n \in 0..Cardinality(taken) :
                        /\ Candidate(name, n) \notin taken
                        /\ \A m \in 0..(n - 1) : Candidate(name, m) \in taken)

NamesIn(f, dir) == {q.name : q \in InDir(f, dir)}

\* C4: archive_file stores its copy under the first free name of the
\* sequence name, stem_1.ext, stem_2.ext, ... (stem_n when there is no
\* extension), and no entry that was in the archive directory is overwritten.
C4_FirstFreeArchiveName ==
    last.op = "archive_file" =>
        /\ \A q \in InDir(last.fs, archive_dir(Home)) \ {last.path} :
              q \in DOMAIN fs /\ fs[q] = last.fs[q]
        /\ \A e \in NewIn(archive_dir(Home)) :
              e.name = FirstFree(last.path.name, NamesIn(last.fs, archive_dir(Home)))
        /\ Cardinality(NewIn(archive_dir(Home))) <= 1

Report1Pdf == <<"r", "e", "p", "o", "r", "t", "_", "1", ".", "p", "d", "f">>

Report2Pdf == <<"r", "e", "p", "o", "r", "t", "_", "2", ".", "p", "d", "f">>

\* report.pdf was archived before; two sources named report.pdf were archived
\* as report_1.pdf and then report_2.pdf
C4_Witness ==
    /\ last.op = "archive_file"
    /\ last.ret = Ok
    /\ last.path.name = ReportPdf
    /\ PathOf(archive_dir(Home), ReportPdf) \in DOMAIN last.fs
    /\ PathOf(archive_dir(Home), Report1Pdf) \in DOMAIN last.fs
    /\ last.fs[PathOf(archive_dir(Home), Report1Pdf)].content \in {Data("c1"), Data("c2")}
    /\ NewIn(archive_dir(Home)) = {PathOf(archive_dir(Home), Report2Pdf)}
    /\ fs[PathOf(archive_dir(Home), ReportPdf)].content = Data("c0")

TwoDigits(n) == <<Digits[(n \div 10) + 1], Digits[(n % 10) + 1]>>

\* A local time as YYYY-MM-DDTHH:MM:SS
Stamp(now) ==
    TwoDigits(now.year \div 100) \o TwoDigits(now.year % 100) \o <<"-">>
        \o TwoDigits(now.month) \o <<"-">> \o TwoDigits(now.day) \o <<"T">>
        \o TwoDigits(now.hour) \o <<":">> \o TwoDigits(now.minute) \o <<":">>
        \o TwoDigits(now.second)

SidecarOf(name) == PathOf(trash_info_dir(Home), name \o DotTrashinfo)

C7_MutationScopedToPath ==
    last.op # "none" =>
        /\ \A q \in DOMAIN last.fs \ {last.path} :
              q \in DOMAIN fs /\ fs[q].content = last.fs[q].content
        /\ \A q \in DOMAIN fs \ DOMAIN last.fs :
              \/ last.op = "archive_file" /\ q.dir = archive_dir(Home)
              \/ last.op = "move_to_trash"
                     /\ q.dir \in {trash_dir(Home), trash_info_dir(Home)}
        /\ last.op = "scan_and_filter" => fs = last.fs /\ dirs = last.dirs

\* ------------------------------------------------- rule engine: the age axis

\* Records that pass every check of matches_rule but the age check under a
\* default rule: no flags, last accessed at the epoch, 30 days before now, one
\* second later, now, one second after now and far in the future.
AgeAxisRecords ==
    { FileInfo(<<"/", "u", "/", "f">>, U64(1), la,
               <<"N", "o", " ", "E", "x", "t", "e", "n", "s", "i", "o", "n">>,
               FALSE, FALSE, FALSE) :
        la \in { U64(0), U64(864000), U64(864001), U64(3456000), U64(3456001),
                 Pow2(62) } }

\* One day more than the 30 days of the records, and the u64 range's top
AgeAxisChoices == { U64(0), U64(1), U64(30), U64(31), Pow2(57), Pow2(63) }

InitAge ==
    /\ files \in SeqsUpTo(AgeAxisRecords, MaxFiles)
    /\ rule \in {[DefaultRule EXCEPT !.max_age_days = m] : m \in AgeAxisChoices}
    /\ now_secs \in NowChoices
    /\ overflow_checks \in BOOLEAN
    /\ run = NoRun
    /\ prev_run = NoRun
    /\ edits = 0
    /\ rstatus = "idle"
    /\ ErrVarsUnused
    /\ FsVarsUnused
    /\ ProgVarsUnused
    /\ CallVarsUnused

NextAge == ApplyRules

SpecAge == InitAge /\ [][NextAge]_vars

\* now - last_access_secs is negative
FutureDated(file, now) == Less(now, file.last_access_secs)

\* C11: on the age axis max_age_days = 0 rejects no record, future-dated ones
\* included; any max_age_days >= 1 rejects every future-dated record; and a
\* record is accepted exactly when its age, clamped at 0, is at least
\* max_age_days*86400.
C11_AgeAxis ==
    run.done =>
        \A i \in 1..Len(files) :
            /\ run.rule.max_age_days = U64(0) => files[i] \in Range(run.result)
            /\ (FutureDated(files[i], now_secs) /\ run.rule.max_age_days # U64(0))
                  => files[i] \notin Range(run.result)
            /\ files[i] \in Range(run.result)
                  <=> AtLeastProduct(saturating_sub(now_secs, files[i].last_access_secs),
                                     run.rule.max_age_days, 86400)

\* C11 where max_age_days*86400 fits 64 bits
C11_AgeAxisWithoutOverflow ==
    ~mul_overflows(run.rule.max_age_days, 86400) => C11_AgeAxis

\* --------------------------------------------------- scan-time exclusion

RECURSIVE scanner_wildcard_loop(_, _, _, _)
\* The for loop of scanner.rs's wildcard_match from part i on
scanner_wildcard_loop(parts, text, i, text_pos) ==
    IF i > Len(parts) THEN TRUE
    ELSE IF parts[i] = <<>> THEN scanner_wildcard_loop(parts, text, i + 1, text_pos)
    ELSE IF i = 1
         THEN IF ~starts_with(text, parts[i]) THEN FALSE
              ELSE scanner_wildcard_loop(parts, text, i + 1, Len(parts[i]))
    ELSE IF i = Len(parts)
         THEN ends_with(SliceFrom(text, text_pos), parts[i])
    ELSE LET pos == find(SliceFrom(text, text_pos), parts[i])
         IN  IF pos = <<>> THEN FALSE
             ELSE scanner_wildcard_loop(parts, text, i + 1,
                                        text_pos + pos[1] + Len(parts[i]))

\* scanner.rs's wildcard_match comparing in lower case, as rules.rs's does (a
\* variant)
scanner_wildcard_match_lowercased(pattern, text) == wildcard_match(pattern, text)

\* scanner.rs: fn wildcard_match
scanner_wildcard_match(pattern, text) ==
    IF pattern = <<"*">> THEN TRUE
    ELSE IF ~contains(pattern, <<"*">>) THEN pattern = text
    ELSE scanner_wildcard_loop(split(pattern, "*"), text, 1, 0)

RECURSIVE should_exclude_from(_, _, _)
\* The for loop of should_exclude_file from pattern i on
should_exclude_from(path_str, exclude_patterns, i) ==
    IF i > Len(exclude_patterns) THEN FALSE
    ELSE IF contains(exclude_patterns[i], <<"*">>)
         THEN IF scanner_wildcard_match(exclude_patterns[i], path_str) THEN TRUE
              ELSE should_exclude_from(path_str, exclude_patterns, i + 1)
    ELSE IF contains(path_str, exclude_patterns[i]) THEN TRUE
    ELSE should_exclude_from(path_str, exclude_patterns, i + 1)

\* scanner.rs: fn should_exclude_file
should_exclude_file(path_str, exclude_patterns) ==
    should_exclude_from(path_str, exclude_patterns, 1)

\* ------------------------------------------ the two matchers: state machine

MaxPatternLen == 4

MaxTextLen == 3

PatternAlphabet == {"a", "B", "*"}

TextAlphabet == {"a", "b", "A"}

DownloadsPattern == <<"*", "/", "D", "o", "w", "n", "l", "o", "a", "d", "s", "/", "*">>

DownloadsPath == <<"/", "h", "o", "m", "e", "/", "u", "/", "D", "o", "w", "n", "l", "o", "a", "d", "s", "/", "x", ".", "z", "i", "p">>

DesktopPath == <<"/", "h", "o", "m", "e", "/", "u", "/", "D", "e", "s", "k", "t", "o", "p", "/", "x", ".", "z", "i", "p">>

\* Every short pattern over a letter, a capital and the star, with the
\* patterns of the tests and one with a first, a middle and a last part
PatternChoices ==
    SeqsUpTo(PatternAlphabet, MaxPatternLen)
        \cup { DownloadsPattern, <<"*", ".", "l", "o", "g">>, <<"a", "*", "B", "*", "a">>, <<"/", "D", "O", "W", "N", "L", "O", "A", "D", "S", "/">> }

\* Every short text over two letters and a capital, with the paths of the tests
TextChoices ==
    SeqsUpTo(TextAlphabet, MaxTextLen)
        \cup { DownloadsPath, DesktopPath, <<"/", "h", "o", "m", "e", "/", "u", "s", "e", "r", "/", "f", "i", "l", "e", ".", "l", "o", "g">>, <<"a", "b", "A", "b", "a">> }

InitMatch ==
    /\ input \in [pattern : PatternChoices, text : TextChoices]
    /\ output = <<>>
    /\ RuleVarsUnused
    /\ ErrVarsUnused
    /\ FsVarsUnused
    /\ ProgVarsUnused

Returns(op, value) ==
    /\ output = <<>>
    /\ output' = <<[ op |-> op, value |-> value ]>>
    /\ UNCHANGED <<input, ruleVars, errVars, fsVars, progVars>>

\* rules.rs: pattern_matches(&file.path, pattern)
PatternMatches ==
    Returns("pattern_matches", pattern_matches(input.text, input.pattern))

\* rules.rs: wildcard_match(pattern, text)
RulesWildcardMatch ==
    Returns("rules::wildcard_match", wildcard_match(input.pattern, input.text))

\* scanner.rs: wildcard_match(pattern, text)
ScannerWildcardMatch ==
    Returns("scanner::wildcard_match", scanner_wildcard_match(input.pattern, input.text))

\* scanner.rs: should_exclude_file(path, &[pattern])
ShouldExcludeFile ==
    Returns("should_exclude_file", should_exclude_file(input.text, <<input.pattern>>))

NextMatch ==
    \/ PatternMatches
    \/ RulesWildcardMatch
    \/ ScannerWildcardMatch
    \/ ShouldExcludeFile

SpecMatch == InitMatch /\ [][NextMatch]_vars

\* ------------------------------------------------- the two matchers: claims

Returned(op) == output # <<>> /\ output[1].op = op

RECURSIVE PartsFit(_, _, _, _)
\* Whether the non-empty parts from the k-th on can be laid on text from
\* left to right without overlap, none starting before offset from: the
\* first part of all at the start, the last part of all at the end.
PartsFit(parts, text, k, from) ==
    IF k > Len(parts) THEN TRUE
    ELSE IF parts[k] = <<>> THEN PartsFit(parts, text, k + 1, from)
    ELSE \E at \in from..(Len(text) - Len(parts[k])) :
            /\ SubSeq(text, at + 1, at + Len(parts[k])) = parts[k]
            /\ k = 1 => at = 0
            /\ k = Len(parts) => at = Len(text) - Len(parts[k])
            /\ PartsFit(parts, text, k + 1, at + Len(parts[k]))

\* The reference wildcard scheme on a pattern that holds a star
WildcardReference(pattern, text) == PartsFit(split(pattern, "*"), text, 1, 0)

\* The reference of the rule-time matcher
PatternReference(pattern, path) ==
    IF \E i \in 1..Len(pattern) : pattern[i] = "*"
    THEN WildcardReference(to_lowercase(pattern), to_lowercase(path))
    ELSE \E at \in 0..(Len(path) - Len(pattern)) :
            to_lowercase(SubSeq(path, at + 1, at + Len(pattern))) = to_lowercase(pattern)

\* C12: pattern_matches on the full path equals the reference for every
\* pattern and path: "*" matches everything, a pattern with a star matches
\* iff its parts fit as prefix, ordered non-overlapping middles and suffix,
\* a pattern without one iff it is a substring, all case-insensitively;
\* "*/Downloads/*" matches /home/u/Downloads/x.zip and not
\* /home/u/Desktop/x.zip.
C12_PatternMatchesReference ==
    Returned("pattern_matches") =>
        /\ output[1].value = PatternReference(input.pattern, input.text)
        /\ input.pattern = <<"*">> => output[1].value
        /\ (input.pattern = DownloadsPattern /\ input.text = DownloadsPath)
              => output[1].value
        /\ (input.pattern = DownloadsPattern /\ input.text = DesktopPath)
              => ~output[1].value

\* A pattern with a first, a middle and a last part in another case than
\* the text it matches
C12_Witness ==
    /\ Returned("pattern_matches")
    /\ input.pattern = <<"a", "*", "B", "*", "a">>
    /\ input.text = <<"a", "b", "A", "b", "a">>
    /\ output[1].value

HasStar(pattern) == \E i \in 1..Len(pattern) : pattern[i] = "*"

IsSubstring(needle, text) ==
    \E at \in 0..(Len(text) - Len(needle)) :
        SubSeq(text, at + 1, at + Len(needle)) = needle

AllLowercase(s) == to_lowercase(s) = s

\* What C13 says of the two wildcard matchers: the scan-time one is the
\* wildcard scheme compared case-sensitively (whole-string equality without
\* a star), it agrees with the rule-time one on all-lowercase pattern and
\* text, and its match implies the rule-time one's.
WildcardMatchersRelated ==
    Returned("scanner::wildcard_match") =>
        /\ output[1].value
              = IF HasStar(input.pattern)
                THEN WildcardReference(input.pattern, input.text)
                ELSE input.pattern = input.text
        /\ (AllLowercase(input.pattern) /\ AllLowercase(input.text))
              => output[1].value = wildcard_match(input.pattern, input.text)
        /\ output[1].value => wildcard_match(input.pattern, input.text)

\* C13 as stated: an exclude pattern without '*' excludes a path only when
\* it equals the path string exactly, one with '*' excludes by the wildcard
\* scheme compared case-sensitively, and the two wildcard matchers agree on
\* lowercase input, a scan-time match implying a rule-time match.
C13_ExcludeOnlyWhenEqual ==
    /\ Returned("should_exclude_file") =>
          IF HasStar(input.pattern)
          THEN output[1].value = WildcardReference(input.pattern, input.text)
          ELSE output[1].value => input.pattern = input.text
    /\ WildcardMatchersRelated

\* C13, amended: an exclude pattern without '*' excludes a path exactly when
\* it occurs in the path string as a substring, compared case-sensitively;
\* the rest as stated.
C13_ExcludeWhenSubstring ==
    /\ Returned("should_exclude_file") =>
          output[1].value
              = IF HasStar(input.pattern)
                THEN WildcardReference(input.pattern, input.text)
                ELSE IsSubstring(input.pattern, input.text)
    /\ WildcardMatchersRelated

\* A pattern without '*' that excluded a longer path
C13_Witness ==
    /\ Returned("should_exclude_file")
    /\ ~HasStar(input.pattern)
    /\ input.pattern # <<>>
    /\ Len(input.text) > Len(input.pattern)
    /\ output[1].value

\* ------------------------------------------------------------- the scanner

\* scanner.rs: impl Default for ScanOptions (Option: <<>> is None, <<x>> is
\* Some(x))
DefaultScanOptions ==
    [ include_hidden   |-> FALSE,
      include_system   |-> FALSE,
      max_depth        |-> <<>>,
      follow_symlinks  |-> FALSE,
      file_extensions  |-> <<>>,
      exclude_patterns |-> <<<<"*", ".", "t", "m", "p">>, <<"*", ".", "c", "a", "c", "h", "e">>, <<"*", "/", ".", "g", "i", "t", "/", "*">>, <<"*", "/", "n", "o", "d", "e", "_", "m", "o", "d", "u", "l", "e", "s", "/", "*">>>> ]

RECURSIVE rfind_slash(_, _)
rfind_slash(path_str, i) ==
    IF i = 0 THEN 0
    ELSE IF path_str[i] = "/" THEN i
    ELSE rfind_slash(path_str, i - 1)

\* Path::file_name of a path string that ends in a normal component
last_component(path_str) ==
    SubSeq(path_str, rfind_slash(path_str, Len(path_str)) + 1, Len(path_str))

\* scanner.rs: fn is_hidden_file
is_hidden_file(path_str) == starts_with(last_component(path_str), <<".">>)

ImageExts == { <<"j", "p", "g">>, <<"j", "p", "e", "g">>, <<"p", "n", "g">>, <<"g", "i", "f">>, <<"b", "m", "p">>, <<"w", "e", "b", "p">>, <<"s", "v", "g">> }

VideoExts == { <<"m", "p", "4">>, <<"a", "v", "i">>, <<"m", "o", "v">>, <<"m", "k", "v">>, <<"f", "l", "v">>, <<"w", "m", "v">>, <<"w", "e", "b", "m">> }

AudioExts == { <<"m", "p", "3">>, <<"w", "a", "v">>, <<"f", "l", "a", "c">>, <<"a", "a", "c">>, <<"o", "g", "g">>, <<"m", "4", "a">> }

DocumentExts == { <<"d", "o", "c">>, <<"d", "o", "c", "x">>, <<"o", "d", "t">> }

SpreadsheetExts == { <<"x", "l", "s">>, <<"x", "l", "s", "x">>, <<"o", "d", "s">> }

PresentationExts == { <<"p", "p", "t">>, <<"p", "p", "t", "x">>, <<"o", "d", "p">> }

ArchiveExts == { <<"z", "i", "p">>, <<"r", "a", "r">>, <<"7", "z">>, <<"t", "a", "r">>, <<"g", "z">>, <<"b", "z", "2">> }

ExecutableExts == { <<"e", "x", "e">>, <<"m", "s", "i">>, <<"d", "e", "b">>, <<"r", "p", "m">>, <<"d", "m", "g">>, <<"p", "k", "g">> }

TextExts == { <<"t", "x", "t">>, <<"m", "d">>, <<"l", "o", "g">>, <<"c", "f", "g">>, <<"i", "n", "i">>, <<"c", "o", "n", "f">> }

WebExts == { <<"h", "t", "m", "l">>, <<"h", "t", "m">>, <<"c", "s", "s">>, <<"j", "s">>, <<"j", "s", "o", "n">>, <<"x", "m", "l">> }

CodeExts == { <<"c">>, <<"c", "p", "p">>, <<"h">>, <<"p", "y">>, <<"j", "a", "v", "a">>, <<"r", "s">>, <<"g", "o">> }

\* The inner match of get_file_type_from_path on the lowercased extension
type_label(ext_str) ==
    CASE ext_str \in ImageExts -> <<"I", "m", "a", "g", "e">>
      [] ext_str \in VideoExts -> <<"V", "i", "d", "e", "o">>
      [] ext_str \in AudioExts -> <<"A", "u", "d", "i", "o">>
      [] ext_str = <<"p", "d", "f">> -> <<"P", "D", "F">>
      [] ext_str \in DocumentExts -> <<"D", "o", "c", "u", "m", "e", "n", "t">>
      [] ext_str \in SpreadsheetExts -> <<"S", "p", "r", "e", "a", "d", "s", "h", "e", "e", "t">>
      [] ext_str \in PresentationExts -> <<"P", "r", "e", "s", "e", "n", "t", "a", "t", "i", "o", "n">>
      [] ext_str \in ArchiveExts -> <<"A", "r", "c", "h", "i", "v", "e">>
      [] ext_str \in ExecutableExts -> <<"E", "x", "e", "c", "u", "t", "a", "b", "l", "e">>
      [] ext_str \in TextExts -> <<"T", "e", "x", "t">>
      [] ext_str \in WebExts -> <<"W", "e", "b">>
      [] ext_str \in CodeExts -> <<"C", "o", "d", "e">>
      [] OTHER -> <<".">> \o ext_str

\* get_file_type_from_path looking the extension up as written (a variant)
get_file_type_from_path_as_written(path_str) ==
    LET ext == extension(last_component(path_str))
    IN  IF ext = <<>> THEN <<"N", "o", " ", "E", "x", "t", "e", "n", "s", "i", "o", "n">> ELSE type_label(ext[1])

\* scanner.rs: fn get_file_type_from_path
get_file_type_from_path(path_str) ==
    LET ext == extension(last_component(path_str))
    IN  IF ext = <<>> THEN <<"N", "o", " ", "E", "x", "t", "e", "n", "s", "i", "o", "n">>
        ELSE type_label(to_lowercase(ext[1]))

RECURSIVE join(_, _)
\* Path::join of the root with the names below it
join(folder, rel) ==
    IF rel = <<>> THEN folder
    ELSE join(folder \o <<"/">> \o rel[1], Tail(rel))

\* Whether the walk reads the directory at an entry: a readable directory,
\* or a link to one when links are followed
Descends(entry, follow_links) ==
    /\ entry.readable
    /\ \/ entry.kind = "dir"
       \/ follow_links /\ entry.kind = "symlink" /\ entry.target = "dir"

\* DirEntry::file_type().is_file(): of the link's target when links are
\* followed
is_file(entry, follow_links) ==
    \/ entry.kind = "file"
    \/ follow_links /\ entry.kind = "symlink" /\ entry.target = "file"

RECURSIVE walk(_, _, _, _, _)
\* WalkDir::new(folder).follow_links(..).max_depth(..).into_iter()
\* .filter_map(|e| e.ok()): the entries of tree (listed in the order the
\* directories are read) from the i-th on that the walk yields, opened
\* holding the directories read so far; an entry whose link target is
\* missing is an error when links are followed.
walk(tree, follow_links, max_depth, i, opened) ==
    IF i > Len(tree) THEN <<>>
    ELSE LET entry == tree[i]
             depth == Len(entry.rel)
             reached ==
                 /\ depth = 0 \/ SubSeq(entry.rel, 1, depth - 1) \in opened
                 /\ max_depth = <<>> \/ depth <= max_depth[1]
             ok == ~(follow_links /\ entry.kind = "symlink" /\ entry.target = "none")
             opens ==
                 /\ reached
                 /\ Descends(entry, follow_links)
                 /\ max_depth = <<>> \/ depth < max_depth[1]
         IN  (IF reached /\ ok THEN <<entry>> ELSE <<>>)
                 \o walk(tree, follow_links, max_depth, i + 1,
                         IF opens THEN opened \cup {entry.rel} ELSE opened)

\* The extension filter comparing the extension as written (a variant)
extension_allowed_as_written(path_str, file_extensions) ==
    IF file_extensions = <<>> THEN TRUE
    ELSE LET extensions == file_extensions[1]
             ext == extension(last_component(path_str))
         IN  IF ext # <<>>
             THEN \E k \in 1..Len(extensions) : extensions[k] = ext[1]
             ELSE extensions = <<>>

\* The extension filter of scan_folder_with_options: TRUE to keep the file
extension_allowed(path_str, file_extensions) ==
    IF file_extensions = <<>> THEN TRUE
    ELSE LET extensions == file_extensions[1]
             ext == extension(last_component(path_str))
         IN  IF ext # <<>>
             THEN \E k \in 1..Len(extensions) :
                      to_lowercase(extensions[k]) = to_lowercase(ext[1])
             ELSE extensions = <<>>

RECURSIVE scan_loop(_, _, _, _)
\* The for loop of scan_folder_with_options over the entries the walk yields
scan_loop(folder, entries, options, i) ==
    IF i > Len(entries) THEN <<>>
    ELSE LET entry == entries[i]
             path == join(folder, entry.rel)
             rest == scan_loop(folder, entries, options, i + 1)
         IN  IF ~is_file(entry, options.follow_symlinks) THEN rest
             ELSE IF ~options.include_hidden /\ is_hidden_file(path) THEN rest
             ELSE IF should_exclude_file(path, options.exclude_patterns) THEN rest
             ELSE IF ~extension_allowed(path, options.file_extensions) THEN rest
             ELSE IF entry.metadata = <<>> THEN rest
             ELSE <<FileInfo(path, entry.metadata[1].len,
                             entry.metadata[1].accessed,
                             get_file_type_from_path(path),
                             is_hidden_file(path),
                             entry.metadata[1].readonly,
                             entry.metadata[1].executable)>> \o rest

\* scanner.rs: fn scan_folder_with_options
scan_folder_with_options(folder, tree, options) ==
    scan_loop(folder,
              walk(tree, options.follow_symlinks, options.max_depth, 1, {}),
              options, 1)

\* scanner.rs: fn scan_folder
scan_folder(folder, tree) ==
    scan_folder_with_options(folder, tree, DefaultScanOptions)

\* ------------------------------------------------ the scanner: state machine

MaxDepthOption == 2

\* fs::metadata of an entry, as far as the record keeps it
Metadata(len, accessed, ro, executable) ==
    <<[ len |-> U64(len), accessed |-> U64(accessed),
        readonly |-> ro, executable |-> executable ]>>

File(rel, metadata) ==
    [ rel |-> rel, kind |-> "file", target |-> "file", readable |-> TRUE,
      metadata |-> metadata ]

Dir(rel, readable) ==
    [ rel |-> rel, kind |-> "dir", target |-> "dir", readable |-> readable,
      metadata |-> Metadata(4096, 0, FALSE, TRUE) ]

Symlink(rel, target, metadata) ==
    [ rel |-> rel, kind |-> "symlink", target |-> target, readable |-> TRUE,
      metadata |-> metadata ]

\* A directory holding plain, hidden, temporary and extensionless files, a
\* repository and a package directory, nested directories, a directory that
\* cannot be listed, links to a file, to a directory and to nothing, and a
\* file removed before its metadata is read
SampleTree ==
    << Dir(<<>>, TRUE),
       File(<<<<"a", ".", "t", "x", "t">>>>, Metadata(10, 100, FALSE, FALSE)),
       File(<<<<".", "h", "i", "d">>>>, Metadata(10, 200, FALSE, FALSE)),
       File(<<<<"b", ".", "T", "M", "P">>>>, Metadata(20, 300, FALSE, FALSE)),
       File(<<<<"c", ".", "t", "m", "p">>>>, Metadata(20, 300, FALSE, FALSE)),
       File(<<<<"x", ".", "c", "a", "c", "h", "e">>>>, Metadata(30, 300, TRUE, FALSE)),
       File(<<<<"n", "o", "e", "x", "t">>>>, Metadata(40, 400, FALSE, TRUE)),
       Dir(<<<<".", "g", "i", "t">>>>, TRUE),
       File(<<<<".", "g", "i", "t">>, <<"c", "o", "n", "f", "i", "g">>>>, Metadata(50, 500, FALSE, FALSE)),
       Dir(<<<<"n", "o", "d", "e", "_", "m", "o", "d", "u", "l", "e", "s">>>>, TRUE),
       File(<<<<"n", "o", "d", "e", "_", "m", "o", "d", "u", "l", "e", "s">>, <<"m", ".", "j", "s">>>>, Metadata(60, 600, FALSE, FALSE)),
       Dir(<<<<"s", "u", "b">>>>, TRUE),
       File(<<<<"s", "u", "b">>, <<"d", ".", "J", "P", "G">>>>, Metadata(70, 700, FALSE, FALSE)),
       Dir(<<<<"s", "u", "b">>, <<"d", "e", "e", "p">>>>, TRUE),
       File(<<<<"s", "u", "b">>, <<"d", "e", "e", "p">>, <<"e", ".", "r", "s">>>>, Metadata(80, 800, FALSE, FALSE)),
       Dir(<<<<"l", "o", "c", "k", "e", "d">>>>, FALSE),
       File(<<<<"l", "o", "c", "k", "e", "d">>, <<"f", ".", "t", "x", "t">>>>, Metadata(90, 900, FALSE, FALSE)),
       Symlink(<<<<"l", "i", "n", "k", ".", "t", "x", "t">>>>, "file", Metadata(10, 100, FALSE, FALSE)),
       Symlink(<<<<"d", "l", "i", "n", "k">>>>, "dir", Metadata(4096, 0, FALSE, TRUE)),
       File(<<<<"d", "l", "i", "n", "k">>, <<"g", ".", "t", "x", "t">>>>, Metadata(70, 700, FALSE, FALSE)),
       Symlink(<<<<"d", "e", "a", "d">>>>, "none", <<>>),
       File(<<<<"g", "o", "n", "e", ".", "t", "x", "t">>>>, <<>>) >>

\* A root that is itself a regular file
FileTree == << File(<<>>, Metadata(10, 100, FALSE, FALSE)) >>

\* A root that does not exist: the walk yields one error and nothing else
MissingTree == << >>

TreeChoices == { SampleTree, FileTree, MissingTree }

\* Absolute and relative roots, among them roots named as the excluded
\* directories
FolderChoices == { <<"/", "r">>, <<"r">>, <<".">>, <<".", "g", "i", "t">>, <<"n", "o", "d", "e", "_", "m", "o", "d", "u", "l", "e", "s">>, <<"/", "w", "/", "n", "o", "d", "e", "_", "m", "o", "d", "u", "l", "e", "s">> }

ScanOptionsChoices ==
    [ include_hidden   : BOOLEAN,
      include_system   : {FALSE},
      max_depth        : {<<>>} \cup {<<n>> : n \in 0..MaxDepthOption},
      follow_symlinks  : BOOLEAN,
      file_extensions  : { <<>>, <<<<>>>>, <<<<<<"T", "X", "T">>, <<"j", "p", "g">>>>>> },
      exclude_patterns : { DefaultScanOptions.exclude_patterns, <<>>,
                           <<<<"s", "u", "b">>, <<"*", ".", "T", "X", "T">>>> } ]

InitScan ==
    /\ input \in [folder : FolderChoices, tree : TreeChoices,
                  options : ScanOptionsChoices]
    /\ output = <<>>
    /\ RuleVarsUnused
    /\ ErrVarsUnused
    /\ FsVarsUnused
    /\ ProgVarsUnused

\* scanner.rs: scan_folder_with_options(folder, &options)
ScanFolderWithOptions ==
    Returns("scan_folder_with_options",
            scan_folder_with_options(input.folder, input.tree, input.options))

\* scanner.rs: scan_folder(folder)
ScanFolder ==
    Returns("scan_folder", scan_folder(input.folder, input.tree))

NextScan == ScanFolderWithOptions \/ ScanFolder

SpecScan == InitScan /\ [][NextScan]_vars

\* ------------------------------------------------------ the scanner: claims

\* The entry of the tree at a place below the root, if any
EntriesAt(tree, rel) == {k \in 1..Len(tree) : tree[k].rel = rel}

\* Every directory between the root and the entry can be listed, a link to
\* a directory counting as one when links are followed
CanBeTraversed(tree, entry, options) ==
    \A n \in 0..(Len(entry.rel) - 1) :
        \E k \in EntriesAt(tree, SubSeq(entry.rel, 1, n)) :
            /\ tree[k].readable
            /\ \/ tree[k].kind = "dir"
               \/ /\ options.follow_symlinks
                  /\ tree[k].kind = "symlink"
                  /\ tree[k].target = "dir"

IsRegularFile(entry, options) ==
    \/ entry.kind = "file"
    \/ options.follow_symlinks /\ entry.kind = "symlink" /\ entry.target = "file"

OwnName(path) ==
    LET slashes == {k \in 1..Len(path) : path[k] = "/"}
    IN  IF slashes = {} THEN path
        ELSE SubSeq(path, (CHOOSE k \in slashes : \A j \in slashes : j <= k) + 1,
                    Len(path))

MatchesExclude(pattern, path) ==
    IF HasStar(pattern) THEN WildcardReference(pattern, path)
    ELSE IsSubstring(pattern, path)

\* The three checks of C14 on a path
PassesChecks(path, options) ==
    /\ options.include_hidden \/ OwnName(path) = <<>> \/ OwnName(path)[1] # "."
    /\ \A k \in 1..Len(options.exclude_patterns) :
           ~MatchesExclude(options.exclude_patterns[k], path)
    /\ options.file_extensions # <<>> =>
           LET list == options.file_extensions[1]
               ext == extension(OwnName(path))
           IN  IF ext = <<>> THEN list = <<>>
               ELSE \E k \in 1..Len(list) :
                        to_lowercase(list[k]) = to_lowercase(ext[1])

\* The paths of the regular files with readable metadata that can be reached
\* and pass the three checks, at any depth or within the depth limit
ExpectedPaths(folder, tree, options, limited) ==
    { join(folder, tree[k].rel) : k \in
        { k \in 1..Len(tree) :
            /\ IsRegularFile(tree[k], options)
            /\ tree[k].metadata # <<>>
            /\ CanBeTraversed(tree, tree[k], options)
            /\ (limited /\ options.max_depth # <<>>) =>
                   Len(tree[k].rel) <= options.max_depth[1]
            /\ PassesChecks(join(folder, tree[k].rel), options) } }

RecordPaths(records) == {records[k].path : k \in 1..Len(records)}

OneRecordEach(records) ==
    \A j, k \in 1..Len(records) : records[j].path = records[k].path => j = k

\* C14 as stated: scan_folder_with_options never fails and returns one
\* record for exactly the entries under the root that are regular files with
\* readable metadata passing the hidden-name, exclude-pattern and extension
\* allow-list checks; what cannot be traversed or read is omitted.
C14_RecordsForAllUnderRoot ==
    Returned("scan_folder_with_options") =>
        /\ OneRecordEach(output[1].value)
        /\ RecordPaths(output[1].value)
               = ExpectedPaths(input.folder, input.tree, input.options, FALSE)

\* C14, amended: the same of the entries that lie no deeper below the root
\* than max_depth when a depth limit is configured.
C14_RecordsWithinDepth ==
    Returned("scan_folder_with_options") =>
        /\ OneRecordEach(output[1].value)
        /\ RecordPaths(output[1].value)
               = ExpectedPaths(input.folder, input.tree, input.options, TRUE)

\* A scan limited to two levels with an allow-list in another case than the
\* file's extension: sub/d.JPG is returned, sub/deep/e.rs is not
C14_Witness ==
    /\ Returned("scan_folder_with_options")
    /\ input.tree = SampleTree
    /\ input.folder = <<"/", "r">>
    /\ input.options.max_depth = <<2>>
    /\ input.options.file_extensions = <<<<<<"T", "X", "T">>, <<"j", "p", "g">>>>>>
    /\ input.options.exclude_patterns = <<>>
    /\ <<"/", "r", "/", "s", "u", "b", "/", "d", ".", "J", "P", "G">> \in RecordPaths(output[1].value)
    /\ <<"/", "r", "/", "a", ".", "t", "x", "t">> \in RecordPaths(output[1].value)
    /\ <<"/", "r", "/", "n", "o", "e", "x", "t">> \notin RecordPaths(output[1].value)

\* The directories a path lies under: its components but the last
DirectoriesAbove(path) ==
    LET parts == split(path, "/")
    IN  {parts[k] : k \in 1..(Len(parts) - 1)}

\* C15: with the default ScanOptions, for every root, absolute or relative,
\* no returned record has a path ending in .tmp or .cache and none lies
\* under a directory named .git or node_modules.
C15_DefaultExcludes ==
    Returned("scan_folder") =>
        \A k \in 1..Len(output[1].value) :
            LET path == output[1].value[k].path
            IN  /\ ~ends_with(path, <<".", "t", "m", "p">>)
                /\ ~ends_with(path, <<".", "c", "a", "c", "h", "e">>)
                /\ <<".", "g", "i", "t">> \notin DirectoriesAbove(path)
                /\ <<"n", "o", "d", "e", "_", "m", "o", "d", "u", "l", "e", "s">> \notin DirectoriesAbove(path)

\* The same of the roots that are not themselves given as a relative .git or
\* node_modules
C15_DefaultExcludesBelowASlash ==
    (Returned("scan_folder") /\ input.folder \notin {<<".", "g", "i", "t">>, <<"n", "o", "d", "e", "_", "m", "o", "d", "u", "l", "e", "s">>})
        => C15_DefaultExcludes

\* --------------------------------------------------- the two type helpers

\* actions.rs: fn get_file_type (the path is a &str, so to_str() of its
\* extension is always Some)
get_file_type(path_str) ==
    to_lowercase(unwrap_or_default(extension(last_component(path_str))))

TableExts ==
    ImageExts \cup VideoExts \cup AudioExts \cup {<<"p", "d", "f">>} \cup DocumentExts
        \cup SpreadsheetExts \cup PresentationExts \cup ArchiveExts
        \cup ExecutableExts \cup TextExts \cup WebExts \cup CodeExts

\* Every extension of the table after "test.", the paths of the tests, and
\* paths with capitals, two dots, a leading dot, a trailing dot, a dot in a
\* directory name and no dot at all
TypePathChoices ==
    { <<"t", "e", "s", "t", ".">> \o e : e \in TableExts }
        \cup { <<"/", "h", "o", "m", "e", "/", "u", "/">> \o e \o <<".">> \o e : e \in TableExts }
        \cup { <<"t", "e", "s", "t", ".", "j", "p", "g">>, <<"t", "e", "s", "t", ".", "m", "p", "4">>, <<"t", "e", "s", "t", ".", "u", "n", "k", "n", "o", "w", "n">>, <<"t", "e", "s", "t">>,
               <<"t", "e", "s", "t", ".", "t", "x", "t">>, <<"t", "e", "s", "t", ".", "P", "D", "F">>, <<"t", "e", "s", "t", ".", "J", "P", "G">>, <<"/", "u", "/", "M", "o", "v", "i", "e", ".", "M", "p", "4">>,
               <<"/", "u", "/", "a", ".", "t", "a", "r", ".", "g", "z">>, <<"/", "u", "/", "a", ".", "t", "a", "r", ".", "G", "Z">>, <<"/", "u", "/", ".", "b", "a", "s", "h", "r", "c">>, <<"/", "u", "/", ".", "c", "o", "n", "f", "i", "g", ".", "J", "S", "O", "N">>,
               <<"/", "u", "/", "v", "1", ".", "2", "/", "n", "o", "t", "e", "s">>, <<"/", "u", "/", "v", "1", ".", "2", "/", "n", "o", "t", "e", "s", ".", "M", "D">>, <<"/", "u", "/", "t", "e", "s", "t", ".">>, <<"/", "u", "/", "x", ".", "X", "y", "z">>,
               <<"R", "E", "A", "D", "M", "E">>, <<"/", "u", "/", "j", "p", "g">>, <<"/", "u", "/", "a", ".", "j", "p", "g", "x">> }

InitType ==
    /\ input \in [path : TypePathChoices]
    /\ output = <<>>
    /\ RuleVarsUnused
    /\ ErrVarsUnused
    /\ FsVarsUnused
    /\ ProgVarsUnused

\* scanner.rs: get_file_type_from_path(path)
GetFileTypeFromPath ==
    Returns("get_file_type_from_path", get_file_type_from_path(input.path))

\* actions.rs: get_file_type(path)
GetFileType == Returns("get_file_type", get_file_type(input.path))

NextType == GetFileTypeFromPath \/ GetFileType

SpecType == InitType /\ [][NextType]_vars

\* ---------------------------------------------- the two type helpers: claims

\* The places of the dots of a file name that start an extension: any but
\* the first character, and none in ".."
ExtensionDots(name) ==
    IF name = <<".", ".">> THEN {} ELSE {k \in 2..Len(name) : name[k] = "."}

HasExtension(path) == ExtensionDots(OwnName(path)) # {}

\* The part of the file name after its last dot
ExtensionOf(path) ==
    LET name == OwnName(path)
        dot  == CHOOSE k \in ExtensionDots(name) : \A j \in ExtensionDots(name) : j <= k
    IN  SubSeq(name, dot + 1, Len(name))

\* The label the table gives a lowercased extension: <<>> when it has none
TableLabels(ext) ==
    { label \in { <<"I", "m", "a", "g", "e">>, <<"V", "i", "d", "e", "o">>, <<"A", "u", "d", "i", "o">>, <<"P", "D", "F">>, <<"D", "o", "c", "u", "m", "e", "n", "t">>,
                  <<"S", "p", "r", "e", "a", "d", "s", "h", "e", "e", "t">>, <<"P", "r", "e", "s", "e", "n", "t", "a", "t", "i", "o", "n">>, <<"A", "r", "c", "h", "i", "v", "e">>, <<"E", "x", "e", "c", "u", "t", "a", "b", "l", "e">>,
                  <<"T", "e", "x", "t">>, <<"W", "e", "b">>, <<"C", "o", "d", "e">> } :
        ext \in (CASE label = <<"I", "m", "a", "g", "e">> -> ImageExts
                   [] label = <<"V", "i", "d", "e", "o">> -> VideoExts
                   [] label = <<"A", "u", "d", "i", "o">> -> AudioExts
                   [] label = <<"P", "D", "F">> -> {<<"p", "d", "f">>}
                   [] label = <<"D", "o", "c", "u", "m", "e", "n", "t">> -> DocumentExts
                   [] label = <<"S", "p", "r", "e", "a", "d", "s", "h", "e", "e", "t">> -> SpreadsheetExts
                   [] label = <<"P", "r", "e", "s", "e", "n", "t", "a", "t", "i", "o", "n">> -> PresentationExts
                   [] label = <<"A", "r", "c", "h", "i", "v", "e">> -> ArchiveExts
                   [] label = <<"E", "x", "e", "c", "u", "t", "a", "b", "l", "e">> -> ExecutableExts
                   [] label = <<"T", "e", "x", "t">> -> TextExts
                   [] label = <<"W", "e", "b">> -> WebExts
                   [] label = <<"C", "o", "d", "e">> -> CodeExts) }

\* C16: get_file_type_from_path gives every path exactly one label, a
\* function of its extension compared case-insensitively: the table's label
\* for an extension of the table (jpg Image, mp4 Video), "." and the
\* lowercased extension for any other (test.unknown .unknown), and
\* "No Extension" for a path without extension.
C16_LabelByExtension ==
    Returned("get_file_type_from_path") =>
        /\ IF ~HasExtension(input.path) THEN output[1].value = <<"N", "o", " ", "E", "x", "t", "e", "n", "s", "i", "o", "n">>
           ELSE LET ext == to_lowercase(ExtensionOf(input.path))
                IN  IF TableLabels(ext) # {}
                    THEN TableLabels(ext) = {output[1].value}
                    ELSE output[1].value = <<".">> \o ext
        /\ input.path = <<"t", "e", "s", "t", ".", "j", "p", "g">> => output[1].value = <<"I", "m", "a", "g", "e">>
        /\ input.path = <<"t", "e", "s", "t", ".", "m", "p", "4">> => output[1].value = <<"V", "i", "d", "e", "o">>
        /\ input.path = <<"t", "e", "s", "t", ".", "u", "n", "k", "n", "o", "w", "n">> => output[1].value = <<".", "u", "n", "k", "n", "o", "w", "n">>
        /\ input.path = <<"t", "e", "s", "t">> => output[1].value = <<"N", "o", " ", "E", "x", "t", "e", "n", "s", "i", "o", "n">>

\* An extension of the table written with capitals behind a dotted directory
C16_Witness ==
    /\ Returned("get_file_type_from_path")
    /\ input.path = <<"/", "u", "/", "v", "1", ".", "2", "/", "n", "o", "t", "e", "s", ".", "M", "D">>
    /\ output[1].value = <<"T", "e", "x", "t">>

\* C19: get_file_type returns the extension lowercased, and "unknown" for
\* every path without extension (get_file_type("test") is "unknown").
C19_UnknownWithoutExtension ==
    Returned("get_file_type") =>
        output[1].value = IF HasExtension(input.path)
                          THEN to_lowercase(ExtensionOf(input.path))
                          ELSE <<"u", "n", "k", "n", "o", "w", "n">>

\* The part of C19 about paths that have an extension
C19_LowercasedExtension ==
    (Returned("get_file_type") /\ HasExtension(input.path)) =>
        output[1].value = to_lowercase(ExtensionOf(input.path))

\* ------------------------------------------- queries on a record collection

RECURSIVE AddFrom(_, _, _, _)
\* <<the limbs of a + b from the i-th on, the carry out of the last>>
AddFrom(a, b, i, carry) ==
    IF i > Len(a) THEN << <<>>, carry >>
    ELSE LET t    == a[i] + b[i] + carry
             rest == AddFrom(a, b, i + 1, t \div LimbBase)
         IN  << <<t % LimbBase>> \o rest[1], rest[2] >>

\* a + b on u64 as a release build computes it: the low 64 bits
wrapping_add(a, b) == AddFrom(a, b, 1, 0)[1]

\* Whether a + b exceeds 64 bits (a build with overflow checks panics)
add_overflows(a, b) == AddFrom(a, b, 1, 0)[2] # 0

\* The comparators handed to sort_by: whether a comes strictly before b
comes_before(order, a, b) ==
    CASE order = "size descending" -> Less(b.size, a.size)
      [] order = "last access descending" ->
             Less(b.last_access_secs, a.last_access_secs)
      [] order = "path ascending" -> str_less(a.path, b.path)
      [] order = "label ascending" -> str_less(a.file_type, b.file_type)
      [] order = "extension ascending" ->
             str_less(unwrap_or_default(extension(last_component(a.path))),
                      unwrap_or_default(extension(last_component(b.path))))

RECURSIVE insert_by(_, _, _, _)
\* The place a stable sort gives file behind the already sorted ones:
\* before the first that comes strictly after it in the order
insert_by(sorted, file, order, i) ==
    IF i > Len(sorted) THEN Append(sorted, file)
    ELSE IF comes_before(order, file, sorted[i])
         THEN SubSeq(sorted, 1, i - 1) \o <<file>> \o SubSeq(sorted, i, Len(sorted))
    ELSE insert_by(sorted, file, order, i + 1)

RECURSIVE sort_by(_, _, _)
\* slice::sort_by (a stable sort) of files[1..n]
sort_by(records, order, n) ==
    IF n = 0 THEN <<>>
    ELSE insert_by(sort_by(records, order, n - 1), records[n], order, 1)

\* Iterator::take
take(s, count) == SubSeq(s, 1, IF count < Len(s) THEN count ELSE Len(s))

\* scanner.rs: fn get_largest_files
get_largest_files(records, count) ==
    take(sort_by(records, "size descending", Len(records)), count)

\* scanner.rs: fn get_oldest_files: b.last_access_secs.cmp(&a.last_access_secs)
get_oldest_files(records, count) ==
    take(sort_by(records, "last access descending", Len(records)), count)

RECURSIVE size_groups(_, _)
\* The map of get_duplicate_files after its for loop over files[1..n], as
\* the set of its entries <<size, records>>
size_groups(records, n) ==
    IF n = 0 THEN {}
    ELSE LET groups == size_groups(records, n - 1)
             file   == records[n]
         IN  IF \E g \in groups : g[1] = file.size
             THEN { IF g[1] = file.size THEN <<g[1], Append(g[2], file)>> ELSE g :
                    g \in groups }
             ELSE groups \cup { <<file.size, <<file>>>> }

\* scanner.rs: fn get_duplicate_files
get_duplicate_files(records) ==
    { g \in size_groups(records, Len(records)) : Len(g[2]) > 1 }

RECURSIVE savings_loop(_, _, _, _, _)
\* The for loop of calculate_space_savings over the groups left, in the
\* order the map yields them: "panic" where an overflow-checked build stops
savings_loop(duplicates, potential_savings, duplicate_count, checks, panicked) ==
    IF duplicates = {} THEN
        [ panicked |-> panicked,
          value |-> <<potential_savings, duplicate_count>> ]
    ELSE LET g       == CHOOSE d \in duplicates : TRUE
             size    == g[1]
             extra   == Len(g[2]) - 1
             product == wrapping_mul(size, extra)
             over    == \/ mul_overflows(size, extra)
                        \/ add_overflows(potential_savings, product)
         IN  IF Len(g[2]) > 1
             THEN savings_loop(duplicates \ {g},
                               wrapping_add(potential_savings, product),
                               duplicate_count + extra, checks,
                               panicked \/ (checks /\ over))
             ELSE savings_loop(duplicates \ {g}, potential_savings,
                               duplicate_count, checks, panicked)

\* scanner.rs: fn calculate_space_savings (the count of removable records is
\* far below 2^64 and kept as a number)
calculate_space_savings(records, checks) ==
    savings_loop(get_duplicate_files(records), U64(0), 0, checks, FALSE)

\* The keys handed to max_by_key and min_by_key
key_of(key, file) ==
    IF key = "size" THEN file.size ELSE file.last_access_secs

\* Iterator::max_by_key: the last of the greatest, <<>> when empty
max_by_key(records, key) ==
    IF records = <<>> THEN <<>>
    ELSE LET best == {k \in 1..Len(records) :
                         \A j \in 1..Len(records) :
                             ~Less(key_of(key, records[k]), key_of(key, records[j]))}
         IN  <<records[CHOOSE k \in best : \A j \in best : j <= k]>>

\* Iterator::min_by_key: the first of the least, <<>> when empty
min_by_key(records, key) ==
    IF records = <<>> THEN <<>>
    ELSE LET best == {k \in 1..Len(records) :
                         \A j \in 1..Len(records) :
                             ~Less(key_of(key, records[j]), key_of(key, records[k]))}
         IN  <<records[CHOOSE k \in best : \A j \in best : k <= j]>>

\* main.rs: TrashDoctor::update_stats, the three named files (each Option
\* is the path assigned, <<>> when the field is left as it was)
update_stats(all_files) ==
    LET oldest  == max_by_key(all_files, "last_access_secs")
        newest  == min_by_key(all_files, "last_access_secs")
        largest == max_by_key(all_files, "size")
    IN  [ oldest_file  |-> IF oldest = <<>> THEN <<>> ELSE <<oldest[1].path>>,
          newest_file  |-> IF newest = <<>> THEN <<>> ELSE <<newest[1].path>>,
          largest_file |-> IF largest = <<>> THEN <<>> ELSE <<largest[1].path>> ]

\* ---------------------------- queries on a record collection: state machine

MaxQueryFiles == 4

\* 3 * 2^61 bytes, the length of a sparse file below the 2^63 - 1 limit
HugeSize == [i \in 1..U64Limbs |-> IF i = U64Limbs THEN 96 ELSE 0]

\* <<size, last access>> of the records: two sizes that repeat, a tie in
\* the last access, and one huge size
QueryFileChoices ==
    { <<U64(10), U64(100)>>, <<U64(10), U64(300)>>, <<U64(20), U64(200)>>,
      <<HugeSize, U64(200)>> }

\* The records of the given sizes and last accesses, each with its own path
QueryRecords(pairs) ==
    [ k \in 1..Len(pairs) |->
        FileInfo(<<"/", "f", "/">> \o <<Digits[k + 1]>>, pairs[k][1], pairs[k][2],
                 <<"T", "e", "x", "t">>, FALSE, FALSE, FALSE) ]

InitQuery ==
    /\ input \in { [ records |-> QueryRecords(pairs), checks |-> checks ] :
                   pairs \in SeqsUpTo(QueryFileChoices, MaxQueryFiles),
                   checks \in BOOLEAN }
    /\ output = <<>>
    /\ RuleVarsUnused
    /\ ErrVarsUnused
    /\ FsVarsUnused
    /\ ProgVarsUnused

\* scanner.rs: get_largest_files(&files, count)
GetLargestFiles ==
    \E count \in 0..(MaxQueryFiles + 1) :
        Returns("get_largest_files",
                [ count |-> count, records |-> get_largest_files(input.records, count) ])

\* scanner.rs: get_oldest_files(&files, count)
GetOldestFiles ==
    \E count \in 0..(MaxQueryFiles + 1) :
        Returns("get_oldest_files",
                [ count |-> count, records |-> get_oldest_files(input.records, count) ])

\* scanner.rs: get_duplicate_files(&files)
GetDuplicateFiles ==
    Returns("get_duplicate_files", get_duplicate_files(input.records))

\* scanner.rs: calculate_space_savings(&files)
CalculateSpaceSavings ==
    Returns("calculate_space_savings",
            calculate_space_savings(input.records, input.checks))

\* main.rs: self.update_stats() with all_files the records
UpdateStats == Returns("update_stats", update_stats(input.records))

NextQuery ==
    \/ GetLargestFiles
    \/ GetOldestFiles
    \/ GetDuplicateFiles
    \/ CalculateSpaceSavings
    \/ UpdateStats

SpecQuery == InitQuery /\ [][NextQuery]_vars

\* ---------------------------------- queries on a record collection: claims

SameSize(records, size) == {k \in 1..Len(records) : records[k].size = size}

SharedSizes(records) ==
    {records[k].size : k \in {k \in 1..Len(records) :
                                  Cardinality(SameSize(records, records[k].size)) >= 2}}

\* A record that follows one of its own size: one copy too many
IsSpare(records, k) == \E j \in 1..(k - 1) : records[j].size = records[k].size

RECURSIVE ExactSavings(_, _)
\* The sum of the sizes of the spare records among the first n, with a limb
\* more than a u64 has
ExactSavings(records, n) ==
    IF n = 0 THEN U64(0) \o <<0>>
    ELSE IF IsSpare(records, n)
         THEN AddFrom(ExactSavings(records, n - 1), records[n].size \o <<0>>, 1, 0)[1]
    ELSE ExactSavings(records, n - 1)

GroupsBySize ==
    Returned("get_duplicate_files") =>
        /\ {g[1] : g \in output[1].value} = SharedSizes(input.records)
        /\ \A g \in output[1].value :
              /\ Len(g[2]) = Cardinality(SameSize(input.records, g[1]))
              /\ {g[2][k] : k \in 1..Len(g[2])}
                     = {input.records[k] : k \in SameSize(input.records, g[1])}
              /\ Len(g[2]) >= 2
        /\ \A g, h \in output[1].value : g[1] = h[1] => g = h

SizesOf(records) == [k \in 1..Len(records) |-> records[k].size]

TenTenTwentyTen == <<U64(10), U64(10), U64(20), U64(10)>>

ExampleOfSizes ==
    SizesOf(input.records) = TenTenTwentyTen =>
        /\ Returned("get_duplicate_files") =>
              /\ \E g \in output[1].value : g[1] = U64(10) /\ Len(g[2]) = 3
              /\ \A g \in output[1].value : g[1] # U64(20)
        /\ Returned("calculate_space_savings") =>
              output[1].value.value = <<U64(20), 2>>

\* C17: get_duplicate_files returns exactly the sizes shared by two or more
\* records, each with all records of that size; calculate_space_savings
\* returns the sum over the groups of size * (members - 1) and the sum of
\* (members - 1); sizes [10, 10, 20, 10] give a group of 3 for 10, none for
\* 20, savings 20 and 2 removable files.
C17_GroupsAndSavings ==
    /\ GroupsBySize
    /\ ExampleOfSizes
    /\ Returned("calculate_space_savings") =>
          /\ ~output[1].value.panicked
          /\ output[1].value.value[1] \o <<0>>
                 = ExactSavings(input.records, Len(input.records))
          /\ output[1].value.value[2]
                 = Cardinality({k \in 1..Len(input.records) : IsSpare(input.records, k)})

\* The same where the savings fit 64 bits
C17_GroupsAndSavingsWithin64Bits ==
    ExactSavings(input.records, Len(input.records))[U64Limbs + 1] = 0
        => C17_GroupsAndSavings

LeftOut(records, returned) ==
    {k \in 1..Len(records) : \A j \in 1..Len(returned) : returned[j] # records[k]}

\* C18: get_oldest_files(files, n) returns min(n, number of files) records
\* whose last-access timestamps are no greater than that of any record left
\* out, most stale first; the 'oldest' file of the statistics has the
\* minimum last-access timestamp and the 'newest' the maximum.
C18_LeastRecentlyAccessed ==
    /\ Returned("get_oldest_files") =>
          LET returned == output[1].value.records
              n        == output[1].value.count
          IN  /\ Len(returned)
                    = IF n < Len(input.records) THEN n ELSE Len(input.records)
              /\ \A j \in 1..Len(returned) : \A k \in LeftOut(input.records, returned) :
                    ~Less(input.records[k].last_access_secs, returned[j].last_access_secs)
              /\ \A i, j \in 1..Len(returned) :
                    i < j => ~Less(returned[j].last_access_secs,
                                   returned[i].last_access_secs)
    /\ (Returned("update_stats") /\ input.records # <<>>) =>
          /\ \E k \in 1..Len(input.records) :
                /\ output[1].value.oldest_file = <<input.records[k].path>>
                /\ \A j \in 1..Len(input.records) :
                      ~Less(input.records[j].last_access_secs,
                            input.records[k].last_access_secs)
          /\ \E k \in 1..Len(input.records) :
                /\ output[1].value.newest_file = <<input.records[k].path>>
                /\ \A j \in 1..Len(input.records) :
                      ~Less(input.records[k].last_access_secs,
                            input.records[j].last_access_secs)

\* The part of C18 about how many records are returned
C18_ReturnsTheFirstN ==
    Returned("get_oldest_files") =>
        Len(output[1].value.records)
            = IF output[1].value.count < Len(input.records)
              THEN output[1].value.count ELSE Len(input.records)

\* ---------------------------------------------------------- format_file_size

\* The significand of an f64 holds 53 bits
F64MantissaBits == 53

\* The places of the one bits of a u64
BitsOf(size) ==
    {j \in 0..(8 * U64Limbs - 1) : (size[(j \div 8) + 1] \div (2 ^ (j % 8))) % 2 = 1}

Highest(bits) == CHOOSE m \in bits : \A j \in bits : j <= m

\* bits + 2^s, for bits with none below place s
AddBit(bits, s) ==
    LET z == CHOOSE j \in s..(8 * U64Limbs) :
                 j \notin bits /\ \A i \in s..(j - 1) : i \in bits
    IN  {j \in bits : j > z} \cup {z}

\* size as f64: the integer the conversion gives, as the places of its one
\* bits; beyond 53 significant bits it is rounded to the nearest, a tie to
\* the even significand
as_f64(size) ==
    LET bits == BitsOf(size)
    IN  IF bits = {} \/ Highest(bits) < F64MantissaBits THEN bits
        ELSE LET s      == Highest(bits) - (F64MantissaBits - 1)
                 kept   == {j \in bits : j >= s}
                 guard  == (s - 1) \in bits
                 sticky == \E j \in bits : j < s - 1
             IN  IF guard /\ (sticky \/ s \in kept) THEN AddBit(kept, s)
                 ELSE kept

UNITS == <<<<"B">>, <<"K", "B">>, <<"M", "B">>, <<"G", "B">>, <<"T", "B">>>>

RECURSIVE unit_loop(_, _)
\* The while loop of format_file_size: size_f is the integer of the bits n
\* divided by 1024^unit_idx (a division by 1024 is exact), and the result
\* is the unit_idx it ends with, 0-based
unit_loop(n, unit_idx) ==
    IF n # {} /\ Highest(n) - 10 * unit_idx >= 10 /\ unit_idx < Len(UNITS) - 1
    THEN unit_loop(n, unit_idx + 1)
    ELSE unit_idx

RECURSIVE bits_value(_)
\* The number with the given one bits
bits_value(bits) ==
    IF bits = {} THEN 0
    ELSE LET j == CHOOSE b \in bits : TRUE
         IN  2 ^ j + bits_value(bits \ {j})

\* The bits of n from place lo up to and without place hi, as a number
bit_field(n, lo, hi) == bits_value({j - lo : j \in {b \in n : lo <= b /\ b < hi}})

RECURSIVE times_hundred(_, _, _, _)
\* 100 times the fraction of size_f: the fraction is the bits of n below
\* place 10 * unit_idx, taken ten at a time from the lowest; the result is
\* <<the whole hundredths, whether the rest is above a half, whether it is
\* exactly a half>>
times_hundred(n, unit_idx, i, carry) ==
    LET t == bit_field(n, 10 * i, 10 * i + 10) * 100 + carry.carry
    IN  IF i = unit_idx - 1
        THEN << t \div 1024,
                t % 1024 > 512 \/ (t % 1024 = 512 /\ carry.nonzero),
                t % 1024 = 512 /\ ~carry.nonzero >>
        ELSE times_hundred(n, unit_idx, i + 1,
                           [ carry |-> t \div 1024,
                             nonzero |-> carry.nonzero \/ t % 1024 # 0 ])

\* format!("{:.2}", size_f): correctly rounded to two decimals, a tie to
\* the even last digit
two_decimals(n, unit_idx) ==
    LET whole      == bit_field(n, 10 * unit_idx, 8 * U64Limbs + 1)
        scaled     == times_hundred(n, unit_idx, 0, [carry |-> 0, nonzero |-> FALSE])
        up         == scaled[2] \/ (scaled[3] /\ scaled[1] % 2 = 1)
        hundredths == scaled[1] + (IF up THEN 1 ELSE 0)
    IN  to_string(whole + hundredths \div 100) \o <<".">>
            \o <<Digits[((hundredths % 100) \div 10) + 1], Digits[(hundredths % 10) + 1]>>

\* format_file_size printing one decimal more than the code (a variant)
format_file_size_three_decimals(size) ==
    LET n        == as_f64(size)
        unit_idx == unit_loop(n, 0)
    IN  IF unit_idx = 0
        THEN to_string(bits_value(BitsOf(size))) \o <<" ">> \o UNITS[1]
        ELSE two_decimals(n, unit_idx) \o <<"0", " ">> \o UNITS[unit_idx + 1]

\* actions.rs: fn format_file_size
format_file_size(size) ==
    LET n        == as_f64(size)
        unit_idx == unit_loop(n, 0)
    IN  IF unit_idx = 0
        THEN to_string(bits_value(BitsOf(size))) \o <<" ">> \o UNITS[1]
        ELSE two_decimals(n, unit_idx) \o <<" ">> \o UNITS[unit_idx + 1]

\* ------------------------------------------- format_file_size: state machine

MaxBitsSet == 3

\* Places around the unit steps, around the last bits an f64 keeps of a
\* large size, and the lowest and highest place
BitPlaces == {0, 7, 9, 10, 19, 20, 30, 39, 40, 50, 52, 53, 54, 62, 63}

\* The u64 with the given one bits
U64OfBits(bits) ==
    [ i \in 1..U64Limbs |-> bits_value({j - 8 * (i - 1) : j \in {b \in bits : (b \div 8) + 1 = i}}) ]

\* Every size with few one bits at those places, and the sizes 2^n - 1
SizeArguments ==
    { U64OfBits(bits) : bits \in {b \in SUBSET BitPlaces : Cardinality(b) <= MaxBitsSet} }
        \cup { U64OfBits(0..(n - 1)) : n \in {10, 20, 30, 40, 53, 54, 64} }

InitFormat ==
    /\ input \in [size : SizeArguments]
    /\ output = <<>>
    /\ RuleVarsUnused
    /\ ErrVarsUnused
    /\ FsVarsUnused
    /\ ProgVarsUnused

\* actions.rs: format_file_size(size)
FormatFileSize == Returns("format_file_size", format_file_size(input.size))

NextFormat == FormatFileSize

SpecFormat == InitFormat /\ [][NextFormat]_vars

\* ------------------------------------------------- format_file_size: claims

\* Numbers with two limbs more than a u64, for exact products
Wide(a) == a \o <<0, 0>>

WideOf(n) == NatLimbs(n, U64Limbs + 2)

RECURSIVE WideTimesFrom(_, _, _, _)
WideTimesFrom(a, c, i, carry) ==
    IF i > Len(a) THEN <<>>
    ELSE <<(a[i] * c + carry) % LimbBase>>
             \o WideTimesFrom(a, c, i + 1, (a[i] * c + carry) \div LimbBase)

WideTimes(a, c) == WideTimesFrom(a, c, 1, 0)

WidePlus(a, b) == AddFrom(a, b, 1, 0)[1]

WideLess(a, b) == LessFrom(a, b, Len(a))

RECURSIVE Times1024(_, _)
\* a * 1024^k
Times1024(a, k) == IF k = 0 THEN a ELSE Times1024(WideTimes(a, 1024), k - 1)

\* The largest k <= 4 with size >= 1024^k, and 0 for the size 0
TierOf(size) ==
    CHOOSE k \in 0..4 :
        /\ k = 0 \/ ~Less(size, Pow2(10 * k))
        /\ \A j \in (k + 1)..4 : Less(size, Pow2(10 * j))

IsDigits(s) ==
    /\ s # <<>>
    /\ \A i \in 1..Len(s) : \E d \in 1..10 : Digits[d] = s[i]

RECURSIVE ParseNat(_)
\* The number a string of digits reads as
ParseNat(s) ==
    IF s = <<>> THEN 0
    ELSE 10 * ParseNat(SubSeq(s, 1, Len(s) - 1))
             + (CHOOSE d \in 0..9 : Digits[d + 1] = s[Len(s)])

\* text reads as whole "." two decimals, and that number is within one
\* hundredth of size / 1024^k, and the nearest such number when size has
\* at most 53 significant bits
TwoDecimalsOf(text, size, k) ==
    LET parts == split(text, ".")
    IN  /\ Len(parts) = 2
        /\ IsDigits(parts[1])
        /\ IsDigits(parts[2])
        /\ Len(parts[2]) = 2
        /\ Len(parts[1]) > 1 => parts[1][1] # "0"
        /\ LET printed == Times1024(WideOf(100 * ParseNat(parts[1]) + ParseNat(parts[2])), k)
               exact   == WideTimes(Wide(size), 100)
               unit    == Times1024(WideOf(1), k)
               half    == Times1024(WideOf(512), k - 1)
           IN  /\ WideLess(printed, WidePlus(exact, unit))
               /\ WideLess(exact, WidePlus(printed, unit))
               /\ Less(size, Pow2(F64MantissaBits)) =>
                      /\ ~WideLess(WidePlus(exact, half), printed)
                      /\ ~WideLess(WidePlus(printed, half), exact)

\* C20: format_file_size picks for every u64 size the unit B/KB/MB/GB/TB of
\* the largest k <= 4 with size >= 1024^k; in the B tier it prints the
\* integer without decimals, in the higher tiers size / 1024^k with exactly
\* two decimals; 512 gives "512 B", 1024 "1.00 KB", 1048576 "1.00 MB",
\* 1073741824 "1.00 GB".
C20_UnitAndTwoDecimals ==
    Returned("format_file_size") =>
        LET k     == TierOf(input.size)
            parts == split(output[1].value, " ")
        IN  /\ Len(parts) = 2
            /\ parts[2] = UNITS[k + 1]
            /\ k = 0 =>
                  /\ IsDigits(parts[1])
                  /\ Len(parts[1]) > 1 => parts[1][1] # "0"
                  /\ U64(ParseNat(parts[1])) = input.size
            /\ k > 0 => TwoDecimalsOf(parts[1], input.size, k)
            /\ input.size = U64(512) => output[1].value = <<"5", "1", "2", " ", "B">>
            /\ input.size = U64(1024) => output[1].value = <<"1", ".", "0", "0", " ", "K", "B">>
            /\ input.size = U64(1048576) => output[1].value = <<"1", ".", "0", "0", " ", "M", "B">>
            /\ input.size = U64(1073741824) => output[1].value = <<"1", ".", "0", "0", " ", "G", "B">>

\* 1048575 bytes, one below 1024^2, stay in the KB tier
C20_Witness ==
    /\ Returned("format_file_size")
    /\ input.size = U64(1048575)
    /\ output[1].value = <<"1", "0", "2", "4", ".", "0", "0", " ", "K", "B">>

\* ----------------------------------------------------------- rule suggestions

RECURSIVE DivFrom(_, _, _, _)
\* The limbs of a / c from the i-th down, rem the remainder carried in
DivFrom(a, c, i, rem) ==
    IF i = 0 THEN <<>>
    ELSE DivFrom(a, c, i - 1, (rem * LimbBase + a[i]) % c)
             \o <<(rem * LimbBase + a[i]) \div c>>

\* a / c on u64, c a divisor of at most 2^20
div(a, c) == DivFrom(a, c, U64Limbs, 0)

RECURSIVE sum_sizes(_, _)
\* files.iter().map(|f| f.size).sum() over records[1..n]:
\* <<the low 64 bits, whether the sum left 64 bits on the way>>
sum_sizes(records, n) ==
    IF n = 0 THEN <<U64(0), FALSE>>
    ELSE LET before == sum_sizes(records, n - 1)
         IN  << wrapping_add(before[1], records[n].size),
                before[2] \/ add_overflows(before[1], records[n].size) >>

\* The entry count of type_counts for a label
type_count(records, label) ==
    Cardinality({k \in 1..Len(records) : records[k].file_type = label})

\* The labels max_by_key may return from the map: those of the greatest
\* count (which of several the map's iteration order decides)
most_common_types(records) ==
    {records[k].file_type : k \in
        {k \in 1..Len(records) :
            \A j \in 1..Len(records) :
                type_count(records, records[j].file_type)
                    <= type_count(records, records[k].file_type)}}

\* rules.rs: SmartRule::new
SmartRule(name, description, config) ==
    [ name |-> name, description |-> description, config |-> config,
      priority |-> 5 ]

\* u64::max
max(a, b) == IF Less(a, b) THEN b ELSE a

\* The type-targeted suggestion of suggest_rules_for_files
type_suggestion(records, avg_size, most_common_type) ==
    IF type_count(records, most_common_type) > Len(records) \div 4
    THEN << SmartRule(<<"C", "l", "e", "a", "n", " ">> \o most_common_type \o <<" ", "F", "i", "l", "e", "s">>,
                      <<"T", "a", "r", "g", "e", "t", " ">> \o most_common_type
                          \o <<" ", "f", "i", "l", "e", "s", " ", "w", "h", "i", "c", "h", " ", "m", "a", "k", "e", " ", "u", "p", " ", "a", " ", "l", "a", "r", "g", "e", " ", "p", "o", "r", "t", "i", "o", "n", " ", "o", "f", " ", "y", "o", "u", "r", " ", "f", "i", "l", "e", "s">>,
                      [ DefaultRule EXCEPT
                          !.max_age_days = U64(60),
                          !.min_size_mb = max(div(avg_size, 1024 * 1024), U64(1)),
                          !.file_types = << <<most_common_type>> >> ]) >>
    ELSE <<>>

\* The 'Large File Cleanup' suggestion of suggest_rules_for_files
large_suggestion(records) ==
    IF \E k \in 1..Len(records) : Less(U64(100 * 1024 * 1024), records[k].size)
    THEN << SmartRule(<<"L", "a", "r", "g", "e", " ", "F", "i", "l", "e", " ", "C", "l", "e", "a", "n", "u", "p">>, <<"F", "o", "c", "u", "s", " ", "o", "n", " ", "f", "i", "l", "e", "s", " ", "l", "a", "r", "g", "e", "r", " ", "t", "h", "a", "n", " ", "1", "0", "0", "M", "B">>,
                      [ DefaultRule EXCEPT !.max_age_days = U64(30),
                                           !.min_size_mb = U64(100) ]) >>
    ELSE <<>>

\* The 'Ancient Files' suggestion of suggest_rules_for_files
ancient_suggestion(records, now) ==
    IF \E k \in 1..Len(records) :
           Less(U64(365 * 86400), saturating_sub(now, records[k].last_access_secs))
    THEN << SmartRule(<<"A", "n", "c", "i", "e", "n", "t", " ", "F", "i", "l", "e", "s">>, <<"F", "i", "l", "e", "s", " ", "n", "o", "t", " ", "a", "c", "c", "e", "s", "s", "e", "d", " ", "i", "n", " ", "o", "v", "e", "r", " ", "a", " ", "y", "e", "a", "r">>,
                      [ DefaultRule EXCEPT !.max_age_days = U64(365),
                                           !.min_size_mb = U64(1) ]) >>
    ELSE <<>>

\* rules.rs: fn suggest_rules_for_files, with the clock's reading, the build
\* and the label max_by_key picks among the most common; <<>> for most
\* common when the collection is empty. A build with overflow checks panics
\* in sum() when the total leaves 64 bits.
suggest_rules_for_files(records, now, checks, most_common) ==
    LET total_size == sum_sizes(records, Len(records))
        avg_size   == IF records # <<>> THEN div(total_size[1], Len(records))
                      ELSE U64(0)
    IN  IF checks /\ total_size[2]
        THEN [ panicked |-> TRUE, suggestions |-> <<>> ]
        ELSE [ panicked |-> FALSE,
               suggestions |->
                   (IF most_common = <<>> THEN <<>>
                    ELSE type_suggestion(records, avg_size, most_common[1]))
                       \o large_suggestion(records)
                       \o ancient_suggestion(records, now) ]

\* ------------------------------------------- rule suggestions: state machine

MaxSuggestFiles == 4

\* The clock's reading: 365 days and 1000 seconds after the epoch
SuggestNow == U64(365 * 86400 + 1000)

\* <<type label, size, last access>>: a small fresh file, a file of exactly
\* 100 MB last accessed exactly 365 days ago, one a byte larger, one a second
\* older, and a huge file dated after now
SuggestFileChoices ==
    { <<<<"I", "m", "a", "g", "e">>, U64(10), SuggestNow>>,
      <<<<"T", "e", "x", "t">>, U64(104857600), U64(1000)>>,
      <<<<"V", "i", "d", "e", "o">>, U64(104857601), SuggestNow>>,
      <<<<"A", "r", "c", "h", "i", "v", "e">>, U64(10), U64(999)>>,
      <<<<"I", "m", "a", "g", "e">>, HugeSize, U64(365 * 86400 + 1001)>> }

SuggestRecords(triples) ==
    [ k \in 1..Len(triples) |->
        FileInfo(<<"/", "f", "/">> \o <<Digits[k + 1]>>, triples[k][2], triples[k][3],
                 triples[k][1], FALSE, FALSE, FALSE) ]

InitSuggest ==
    /\ input \in { [ records |-> SuggestRecords(triples), now |-> SuggestNow,
                     checks |-> checks ] :
                   triples \in SeqsUpTo(SuggestFileChoices, MaxSuggestFiles),
                   checks \in BOOLEAN }
    /\ output = <<>>
    /\ RuleVarsUnused
    /\ ErrVarsUnused
    /\ FsVarsUnused
    /\ ProgVarsUnused

\* rules.rs: suggest_rules_for_files(&files)
SuggestRulesForFiles ==
    \E most_common \in IF input.records = <<>> THEN {<<>>}
                       ELSE {<<label>> : label \in most_common_types(input.records)} :
        Returns("suggest_rules_for_files",
                [ result |-> suggest_rules_for_files(input.records, input.now,
                                                     input.checks, most_common),
                  records |-> input.records ])

NextSuggest == SuggestRulesForFiles

SpecSuggest == InitSuggest /\ [][NextSuggest]_vars

\* --------------------------------------------------- rule suggestions: claims

Names(suggestions) == {suggestions[k].name : k \in 1..Len(suggestions)}

\* The labels held by strictly more than a quarter of the records
FrequentLabels(records) ==
    {records[k].file_type : k \in
        {k \in 1..Len(records) :
            4 * Cardinality({j \in 1..Len(records) :
                                 records[j].file_type = records[k].file_type})
                > Len(records)}}

\* The suggestions that target a type, with the label they target
TypeTargeted(suggestions) ==
    {k \in 1..Len(suggestions) : suggestions[k].config.file_types # <<>>}

\* The record was last accessed before now, and more than 365 days before
AccessedOverAYearAgo(record, now) ==
    /\ Less(record.last_access_secs, now)
    /\ Less(U64(365 * 86400), SubFrom(now, record.last_access_secs, 1, 0))

SuggestionsAsStated(records, now, suggestions) ==
    /\ Len(suggestions) <= 3
    /\ (TypeTargeted(suggestions) # {}) = (FrequentLabels(records) # {})
    /\ \A k \in TypeTargeted(suggestions) :
          LET label == suggestions[k].config.file_types[1]
          IN  /\ Len(label) = 1
              /\ \A j \in 1..Len(records) :
                    Cardinality({i \in 1..Len(records) : records[i].file_type = records[j].file_type})
                        <= Cardinality({i \in 1..Len(records) : records[i].file_type = label[1]})
    /\ Cardinality(TypeTargeted(suggestions)) <= 1
    /\ (<<"L", "a", "r", "g", "e", " ", "F", "i", "l", "e", " ", "C", "l", "e", "a", "n", "u", "p">> \in Names(suggestions))
           = (\E k \in 1..Len(records) : Less(U64(104857600), records[k].size))
    /\ (<<"A", "n", "c", "i", "e", "n", "t", " ", "F", "i", "l", "e", "s">> \in Names(suggestions))
           = (\E k \in 1..Len(records) : AccessedOverAYearAgo(records[k], now))
    /\ records = <<>> => suggestions = <<>>

\* C21: suggest_rules_for_files returns at most three SmartRule templates
\* and never changes the records; a type-targeted rule iff some label holds
\* strictly more than 25% of the records, targeting the most common label;
\* 'Large File Cleanup' iff some record is larger than 104857600 bytes;
\* 'Ancient Files' iff some record was last accessed more than 365 days
\* before now; nothing for an empty collection.
C21_AdvisoryThresholds ==
    Returned("suggest_rules_for_files") =>
        /\ ~output[1].value.result.panicked
        /\ output[1].value.records = input.records
        /\ SuggestionsAsStated(input.records, input.now,
                               output[1].value.result.suggestions)

\* The same of the calls that return
C21_AdvisoryThresholdsWhenReturning ==
    (Returned("suggest_rules_for_files") /\ ~output[1].value.result.panicked)
        => C21_AdvisoryThresholds

\* --------------------------------------------------- the displayed records

\* The type filter of apply_sort_and_filter: TRUE to retain the record
retained(file, filter_by_type) ==
    LET ext == to_lowercase(unwrap_or_default(extension(last_component(file.path))))
    IN  CASE filter_by_type = "Images" ->
                 ext \in { <<"j", "p", "g">>, <<"j", "p", "e", "g">>, <<"p", "n", "g">>, <<"g", "i", "f">>, <<"b", "m", "p">>, <<"t", "i", "f", "f">>, <<"s", "v", "g">> }
          [] filter_by_type = "Documents" ->
                 ext \in { <<"p", "d", "f">>, <<"d", "o", "c">>, <<"d", "o", "c", "x">>, <<"t", "x", "t">>, <<"r", "t", "f">>, <<"o", "d", "t">>,
                           <<"x", "l", "s">>, <<"x", "l", "s", "x">>, <<"p", "p", "t">>, <<"p", "p", "t", "x">> }
          [] filter_by_type = "Videos" ->
                 ext \in { <<"m", "p", "4">>, <<"a", "v", "i">>, <<"m", "o", "v">>, <<"w", "m", "v">>, <<"f", "l", "v">>, <<"m", "k", "v">>, <<"w", "e", "b", "m">> }
          [] OTHER -> TRUE

\* The match on self.sort_by of apply_sort_and_filter
sorted(filtered, criteria) ==
    sort_by(filtered,
            CASE criteria = "Name" -> "path ascending"
              [] criteria = "Size" -> "size descending"
              [] criteria = "Date" -> "last access descending"
              [] criteria = "Type" -> "extension ascending",
            Len(filtered))

\* Vec::retain
retain(records, filter_by_type) ==
    SelectSeq(records, LAMBDA file : retained(file, filter_by_type))

\* ------------------------------------------------- sorting: state machine

MaxSortFiles == 3

\* A record as the scanner builds it for a path
Scanned(path, size, last_access_secs) ==
    FileInfo(path, U64(size), U64(last_access_secs),
             get_file_type_from_path(path), is_hidden_file(path), FALSE, FALSE)

\* An archive, a video, an image with its extension in capitals, a text
\* file with a capital name and a file without extension; two of them tie
\* in size and last access
SortFileChoices ==
    { Scanned(<<"/", "d", "/", "a", ".", "z", "i", "p">>, 30, 100), Scanned(<<"/", "d", "/", "b", ".", "m", "p", "4">>, 10, 300),
      Scanned(<<"/", "d", "/", "c", ".", "J", "P", "G">>, 20, 200), Scanned(<<"/", "d", "/", "B", ".", "t", "x", "t">>, 20, 200),
      Scanned(<<"/", "d", "/", "n", "o", "e", "x", "t">>, 5, 50) }

\* The filtered sets: no path twice
DistinctSeqs(S, n) ==
    {s \in SeqsUpTo(S, n) : \A i, j \in 1..Len(s) : s[i] = s[j] => i = j}

SortCriteria == {"Name", "Size", "Date", "Type"}

InitSort ==
    /\ input \in [ filtered : DistinctSeqs(SortFileChoices, MaxSortFiles),
                   sort_by : SortCriteria ]
    /\ output = <<>>
    /\ RuleVarsUnused
    /\ ErrVarsUnused
    /\ FsVarsUnused
    /\ ProgVarsUnused

\* main.rs: the sorting step of apply_sort_and_filter
Sort == Returns("sort", sorted(input.filtered, input.sort_by))

NextSort == Sort

SpecSort == InitSort /\ [][NextSort]_vars

\* ---------------------------------------------------------- sorting: claims

IsPermutation(a, b) ==
    /\ Len(a) = Len(b)
    /\ \A x \in {a[k] : k \in 1..Len(a)} \cup {b[k] : k \in 1..Len(b)} :
          Cardinality({k \in 1..Len(a) : a[k] = x})
              = Cardinality({k \in 1..Len(b) : b[k] = x})

\* No later record comes strictly before an earlier one in the order of
\* the criteria
OrderedBy(records, criteria) ==
    \A i, j \in 1..Len(records) :
        i < j =>
            CASE criteria = "Name" -> ~str_less(records[j].path, records[i].path)
              [] criteria = "Size" -> ~Less(records[i].size, records[j].size)
              [] criteria = "Date" ->
                     ~Less(records[i].last_access_secs, records[j].last_access_secs)
              [] criteria = "Type" ->
                     ~str_less(records[j].file_type, records[i].file_type)

\* C22: sorting the filtered set yields a permutation of it ordered by the
\* chosen key: path ascending, size descending, last-access seconds
\* descending, or type label ascending (by the classification labels, not
\* the raw extensions).
C22_SortedByKey ==
    Returned("sort") =>
        /\ IsPermutation(output[1].value, input.filtered)
        /\ OrderedBy(output[1].value, input.sort_by)

\* The same of the criteria Name, Size and Date, and the permutation for Type
C22_SortedByKeyButType ==
    Returned("sort") =>
        /\ IsPermutation(output[1].value, input.filtered)
        /\ input.sort_by # "Type" => OrderedBy(output[1].value, input.sort_by)

\* ------------------------------------------ archive_file: content is kept

\* The entries of the archive directory that hold the content the last
\* call's path had
CopiesIn(f) ==
    {e \in InDir(f, archive_dir(Home)) : f[e].content = last.fs[last.path].content}

\* Whether the last call could make the archive directory and write its copy
\* in full
CopyWentThrough ==
    /\ archive_dir(Home) \in dirs
    /\ \A e \in NewIn(archive_dir(Home)) : fs[e].content # Truncated

\* C24: after any archive_file call on a file that was there, whatever it
\* returns, the file's content is at the original path or in the archive
\* directory. For a read-only source the call never succeeds and the original
\* stays as it was; when the directory and the copy could be made the call
\* returns PermissionDenied from the delete step and leaves exactly one new
\* archive entry holding the content, read-only as the source, so that a
\* repeated attempt adds one more.
C24_ContentNeverLost ==
    (last.op = "archive_file" /\ Existed /\ last.path # Root) =>
        /\ \/ /\ last.path \in DOMAIN fs
              /\ fs[last.path].content = last.fs[last.path].content
           \/ CopiesIn(fs) # {}
        /\ WasReadonly =>
              /\ last.ret # Ok
              /\ last.path \in DOMAIN fs
              /\ fs[last.path] = last.fs[last.path]
              /\ \A q \in DOMAIN last.fs : q \in DOMAIN fs /\ fs[q] = last.fs[q]
              /\ CopyWentThrough =>
                    /\ last.ret = PermissionDenied
                    /\ Cardinality(NewIn(archive_dir(Home))) = 1
                    /\ NewIn(archive_dir(Home)) \subseteq CopiesIn(fs)
                    /\ Cardinality(CopiesIn(fs)) = Cardinality(CopiesIn(last.fs)) + 1

\* A second attempt on a read-only source: the first attempt's copy was
\* there, the second added another, and the original is still in place
C24_Witness ==
    /\ last.op = "archive_file"
    /\ calls = 2
    /\ Existed /\ WasReadonly
    /\ last.ret = PermissionDenied
    /\ last.path.dir = Work2
    /\ Cardinality(CopiesIn(last.fs)) = 1
    /\ Cardinality(CopiesIn(fs)) = 2
    /\ last.path \in DOMAIN fs

\* ------------------------------------------ archive_file, calls interleaved

\* Two archive_file calls in flight, on the two work files of one name
Callers == {1, 2}

CallerPath(p, name) == PathOf(IF p = 1 THEN Work1 ELSE Work2, name)

\* A call that has not begun
Begun(path) == [ pc |-> "check", path |-> path, archive_path |-> Root, ret |-> Ok ]

\* What another program puts into the archive directory
OtherContent == Data("cx")

InitRace ==
    /\ env_home \in HomeChoices
    /\ \E name \in NameChoices, ro \in BOOLEAN, earlier \in {"none", "archived"} :
          /\ fs = InitialFs(name, ro, earlier, home_dir(env_home))
          /\ dirs = InitialDirs(earlier, home_dir(env_home))
          /\ procs = [ p \in Callers |-> Begun(CallerPath(p, name)) ]
    /\ archive_log = IF archive_dir(home_dir(env_home)) \in dirs
                     THEN {[ entry |-> e, content |-> fs[e].content ] :
                              e \in InDir(fs, archive_dir(home_dir(env_home)))}
                     ELSE {}
    /\ last = NoCall
    /\ calls = 0
    /\ trash_log = {}
    /\ app = <<>>
    /\ pending = <<>>
    /\ RuleVarsUnused
    /\ ErrVarsUnused
    /\ CallVarsUnused

Finished(p, ret) == [ procs EXCEPT ![p].pc = "done", ![p].ret = ret ]

\* actions.rs:68-99: the exists check, create_dir_all, file_name and the loop
\* that looks for a name nothing is at
ArchiveCheck(p) ==
    LET w == World(fs, dirs)
        path == procs[p].path
        dir == archive_dir(Home)
        made == fs_create_dir_all(w, dir, <<>>, FALSE)
    IN
    /\ procs[p].pc = "check"
    /\ IF ~exists(w, path)
       THEN procs' = Finished(p, FileNotFound) /\ UNCHANGED <<fs, dirs>>
       ELSE /\ fs' = made.fs
            /\ dirs' = made.dirs
            /\ IF file_name(path) = <<>>
               THEN procs' = Finished(p, Other(<<"Invalid file path">>))
               ELSE procs' = [ procs EXCEPT
                        ![p].pc = "copy",
                        ![p].archive_path =
                            free_path(made, dir, file_name(path)[1], 1,
                                      PathOf(dir, file_name(path)[1])) ]
    /\ UNCHANGED <<archive_log, env_home, last, calls, trash_log, app, pending,
                   ruleVars, errVars, callVars>>

\* actions.rs:102: copy(path, &archive_path)?
ArchiveCopy(p) ==
    LET copied == fs_copy(World(fs, dirs), procs[p].path, procs[p].archive_path,
                          <<>>, FALSE)
    IN
    /\ procs[p].pc = "copy"
    /\ fs' = copied.fs
    /\ dirs' = copied.dirs
    /\ IF copied.err # <<>>
       THEN /\ procs' = Finished(p, from_io_error(copied.err[1]))
            /\ UNCHANGED archive_log
       ELSE /\ procs' = [ procs EXCEPT ![p].pc = "delete" ]
            /\ archive_log' = archive_log \cup
                   {[ entry |-> procs[p].archive_path,
                      content |-> fs[procs[p].path].content ]}
    /\ UNCHANGED <<env_home, last, calls, trash_log, app, pending,
                   ruleVars, errVars, callVars>>

\* actions.rs:105: delete_file(path)?
ArchiveDelete(p) ==
    LET deleted == delete_file(World(fs, dirs), procs[p].path, <<>>, FALSE)
    IN
    /\ procs[p].pc = "delete"
    /\ fs' = deleted.fs
    /\ dirs' = deleted.dirs
    /\ procs' = Finished(p, deleted.ret)
    /\ UNCHANGED <<archive_log, env_home, last, calls, trash_log, app, pending,
                   ruleVars, errVars, callVars>>

\* Another program creates an entry of the archive directory, under a name
\* nothing is at, once
OtherCreates ==
    \E name \in {q.name : q \in DOMAIN fs} \cup {Candidate(q.name, 1) : q \in DOMAIN fs} :
        LET entry == PathOf(archive_dir(Home), name)
        IN  /\ \A a \in archive_log : a.content # OtherContent
            /\ archive_dir(Home) \in dirs
            /\ entry \notin DOMAIN fs
            /\ fs' = Put(fs, entry, Entry("file", OtherContent, FALSE))
            /\ archive_log' = archive_log \cup {[ entry |-> entry, content |-> OtherContent ]}
            /\ UNCHANGED <<dirs, procs, env_home, last, calls, trash_log, app, pending,
                           ruleVars, errVars, callVars>>

NextRace ==
    \/ \E p \in Callers : ArchiveCheck(p)
    \/ \E p \in Callers : ArchiveCopy(p)
    \/ \E p \in Callers : ArchiveDelete(p)
    \/ OtherCreates

SpecRace == InitRace /\ [][NextRace]_vars

\* C25: whatever the interleaving of archive_file calls and of other
\* programs, an entry once written to the archive directory is never
\* overwritten: every entry written so far is there with the content it was
\* written with.
C25_NoArchivedContentLost ==
    \A a \in archive_log : a.entry \in DOMAIN fs /\ fs[a.entry].content = a.content

\* What holds of the calls whatever the interleaving: a call that returned
\* success removed its source, and a source is removed by no other call.
C25_SourceRemovedOnlyOnSuccess ==
    \A p \in Callers :
        (procs[p].pc = "done" /\ procs[p].ret = Ok) <=> procs[p].path \notin DOMAIN fs

\* -------------------------------------------------------- the application

\* The element of a set of one: Only({F(x) : x \in {e}}) is F of the value
\* of e, e evaluated once
Only(S) == CHOOSE x \in S : TRUE

\* The folder the application starts with, and its key in the filesystem
HomeFolder == <<"/", "h", "o", "m", "e">>

HomeDir == <<"/home">>

\* Path::new(path): the directory and the file name of a record's path
as_path(path_str) ==
    PathOf(IF SubSeq(path_str, 1, rfind_slash(path_str, Len(path_str)) - 1) = HomeFolder
           THEN HomeDir
           ELSE <<"?">>,
           last_component(path_str))

RECURSIVE listing(_, _, _)
\* The files of a directory as the walk meets them, here by name
listing(w, dir, names) ==
    IF names = {} THEN <<>>
    ELSE LET name == CHOOSE n \in names : \A m \in names \ {n} : str_less(n, m)
             entry == w.fs[PathOf(dir, name)]
         IN  <<File(<<name>>, <<[ len |-> entry.len, accessed |-> entry.accessed,
                                  readonly |-> entry.readonly, executable |-> FALSE ]>>)>>
                 \o listing(w, dir, names \ {name})

\* What WalkDir finds at a folder: nothing at one that is not there
read_dir(w, folder) ==
    IF folder # HomeFolder \/ HomeDir \notin w.dirs THEN <<>>
    ELSE <<Dir(<<>>, TRUE)>> \o listing(w, HomeDir, NamesIn(w.fs, HomeDir))

\* str::parse::<u64> of what is typed into a filter field (the fields of
\* the model hold at most 9 characters)
parse_u64(s) == IF IsDigits(s) /\ Len(s) <= 9 THEN <<U64(ParseNat(s))>> ELSE <<>>

\* main.rs: the status line, by its wording and the numbers formatted into it
Status(wording, numbers) == [ wording |-> wording, numbers |-> numbers ]

\* The lowercased extensions counted by update_stats, "no_extension" for none
stats_key(file) ==
    LET ext == to_lowercase(unwrap_or_default(extension(last_component(file.path))))
    IN  IF ext = <<>> THEN <<"n", "o", "_", "e", "x", "t", "e", "n", "s", "i", "o", "n">> ELSE ext

\* main.rs: fn update_selection_stats
update_selection_stats(a, checks) ==
    LET flagged == {i \in 1..Len(a.selected) : a.selected[i]}
        sizes == [ i \in 1..Len(a.selected) |->
                     [ size |-> IF a.selected[i] /\ i <= Len(a.files)
                                THEN a.files[i].size ELSE U64(0) ] ]
    IN  Only({ IF checks /\ total[2]
               THEN [ a EXCEPT !.selected_count = Cardinality(flagged), !.panicked = TRUE ]
               ELSE [ a EXCEPT !.selected_count = Cardinality(flagged),
                               !.total_size_selected = total[1] ] :
               total \in {sum_sizes(sizes, Len(sizes))} })

\* main.rs: fn apply_sort_and_filter
apply_sort_and_filter(a, now, checks) ==
    IF checks /\ threshold_overflows(a.rule) THEN [ a EXCEPT !.panicked = TRUE ]
    ELSE LET matching == apply_rules(a.all_files, a.rule, now)
             filtered == IF a.filter_by_type # "All"
                         THEN retain(matching, a.filter_by_type)
                         ELSE matching
         IN  Only({ update_selection_stats(cleared, checks) :
                    cleared \in { [ a EXCEPT !.files = displayed,
                                            !.selected = [ i \in 1..Len(displayed) |-> FALSE ] ] :
                                  displayed \in {sorted(filtered, a.sort_by)} } })

\* main.rs: fn update_stats of the application
update_file_stats(a, checks) ==
    LET keys == {stats_key(a.all_files[k]) : k \in 1..Len(a.all_files)}
    IN  Only({
        IF checks /\ total[2]
        THEN [ a EXCEPT !.stats.total_files = Len(a.all_files), !.panicked = TRUE ]
        ELSE [ a EXCEPT !.stats =
                 [ total_files  |-> Len(a.all_files),
                   total_size   |-> total[1],
                   oldest_file  |-> IF found.oldest_file = <<>> THEN a.stats.oldest_file
                                    ELSE found.oldest_file[1],
                   newest_file  |-> IF found.newest_file = <<>> THEN a.stats.newest_file
                                    ELSE found.newest_file[1],
                   largest_file |-> IF found.largest_file = <<>> THEN a.stats.largest_file
                                    ELSE found.largest_file[1],
                   file_types   |-> [ key \in keys |->
                                        Cardinality({k \in 1..Len(a.all_files) :
                                                        stats_key(a.all_files[k]) = key}) ] ] ] :
        total \in {sum_sizes(a.all_files, Len(a.all_files))},
        found \in {update_stats(a.all_files)} })

\* main.rs: fn scan_and_filter
scan_and_filter(a, w, now, checks) ==
    LET age == parse_u64(a.age_filter)
        size == parse_u64(a.size_filter)
    IN  Only({ IF shown.panicked THEN shown ELSE update_file_stats(shown, checks) :
               shown \in { apply_sort_and_filter(scanned, now, checks) :
                           scanned \in { [ a EXCEPT
                               !.all_files = scan_folder(a.folder_path,
                                                         read_dir(w, a.folder_path)),
                               !.rule.max_age_days = IF age = <<>> THEN U64(30) ELSE age[1],
                               !.rule.min_size_mb = IF size = <<>> THEN U64(100)
                                                    ELSE size[1] ] } } })

\* What a batch has done so far: the filesystem, the action calls made with
\* what each returned, and the two counters
Tally(w, made, succeeded, failed) ==
    [ fs |-> w.fs, dirs |-> w.dirs, made |-> made, succeeded |-> succeeded,
      failed |-> failed ]

RECURSIVE batch_until_failure(_, _, _, _, _, _)
\* The loop leaving at the first call that fails (a variant)
batch_until_failure(a, action, faults, home, i, tally) ==
    IF i > Len(a.selected) \/ tally.failed > 0 THEN tally
    ELSE IF ~(a.selected[i] /\ i <= Len(a.files))
    THEN batch_until_failure(a, action, faults, home, i + 1, tally)
    ELSE LET w == World(tally.fs, tally.dirs)
             path == as_path(a.files[i].path)
         IN  Only({ batch_until_failure(a, action, faults, home, i + 1, counted) :
                    counted \in
                      { Tally(r,
                              Append(tally.made, [ op |-> action, index |-> i,
                                                   path |-> path, ret |-> r.ret ]),
                              tally.succeeded + (IF r.ret = Ok THEN 1 ELSE 0),
                              tally.failed + (IF r.ret = Ok THEN 0 ELSE 1)) :
                        r \in { IF action = "delete_file"
                                THEN delete_file(w, path, faults[i], FALSE)
                                ELSE archive_file(w, path, faults[i], FALSE, home) } } })

RECURSIVE batch(_, _, _, _, _, _)
\* main.rs:155-164 and 189-198: for (i, selected) in
\* self.selected.iter().enumerate(), from the i-th flag on; faults gives the
\* OS failure each call meets, if any.
batch(a, action, faults, home, i, tally) ==
    IF i > Len(a.selected) THEN tally
    ELSE IF ~(a.selected[i] /\ i <= Len(a.files))
    THEN batch(a, action, faults, home, i + 1, tally)
    ELSE LET w == World(tally.fs, tally.dirs)
             path == as_path(a.files[i].path)
         IN  Only({ batch(a, action, faults, home, i + 1, counted) :
                    counted \in
                      { Tally(r,
                              Append(tally.made, [ op |-> action, index |-> i,
                                                   path |-> path, ret |-> r.ret ]),
                              tally.succeeded + (IF r.ret = Ok THEN 1 ELSE 0),
                              tally.failed + (IF r.ret = Ok THEN 0 ELSE 1)) :
                        r \in { IF action = "delete_file"
                                THEN delete_file(w, path, faults[i], FALSE)
                                ELSE archive_file(w, path, faults[i], FALSE, home) } } })

\* A message, and what handling one leaves: the application, the filesystem,
\* the action calls made and the messages the returned Command will deliver
Message(type, arg) == [ type |-> type, arg |-> arg ]

Handled(a, tally, commands) ==
    [ app |-> a, fs |-> tally.fs, dirs |-> tally.dirs, made |-> tally.made,
      commands |-> commands ]

\* main.rs:128-309: fn update. picked is what the folder dialog returns.
update(a, w, message, now, checks, faults, home, picked) ==
    LET same == Tally(w, <<>>, 0, 0)
        type == message.type
    IN
    CASE type = "ToggleSelection" ->
           IF message.arg[1] < Len(a.selected)
           THEN Handled(update_selection_stats(
                            [ a EXCEPT !.selected[message.arg[1] + 1] = message.arg[2] ],
                            checks), same, <<>>)
           ELSE Handled(a, same, <<>>)
      [] type = "SelectAll" ->
           Handled(update_selection_stats(
                       [ a EXCEPT !.selected = [ i \in 1..Len(a.files) |-> message.arg ] ],
                       checks), same, <<>>)
      [] type = "ShowDeleteConfirmation" ->
           IF a.selected_count > 0
           THEN Handled([ a EXCEPT !.state = "ConfirmingDelete",
                                   !.message = Status("Are you sure you want to delete {} files? This action cannot be undone!",
                                                      <<a.selected_count>>),
                                   !.message_type = "Warning" ], same, <<>>)
           ELSE Handled([ a EXCEPT !.message = Status("No files selected for deletion.", <<>>),
                                   !.message_type = "Warning" ], same, <<>>)
      [] type = "ConfirmDelete" ->
           Only({
               Handled([ a EXCEPT
                           !.state = "Normal",
                           !.message =
                               IF tally.failed = 0
                               THEN Status("Successfully deleted {} files.",
                                           <<tally.succeeded>>)
                               ELSE Status("Deleted {} files, failed to delete {} files.",
                                           <<tally.succeeded, tally.failed>>),
                           !.message_type =
                               IF tally.failed = 0 THEN "Success" ELSE "Error" ],
                       tally, <<Message("Refresh", <<>>)>>) :
               tally \in {batch(a, "delete_file", faults, home, 1, same)} })
      [] type = "CancelDelete" ->
           Handled([ a EXCEPT !.state = "Normal",
                              !.message = Status("Delete operation cancelled.", <<>>),
                              !.message_type = "Info" ], same, <<>>)
      [] type = "ArchiveSelected" ->
           IF a.selected_count = 0
           THEN Handled([ a EXCEPT !.message = Status("No files selected for archiving.", <<>>),
                                   !.message_type = "Warning" ], same, <<>>)
           ELSE Only({
                    Handled([ a EXCEPT
                                !.state = "Normal",
                                !.message =
                                    IF tally.failed = 0
                                    THEN Status("Successfully archived {} files.",
                                                <<tally.succeeded>>)
                                    ELSE Status("Archived {} files, failed to archive {} files.",
                                                <<tally.succeeded, tally.failed>>),
                                !.message_type =
                                    IF tally.failed = 0 THEN "Success" ELSE "Error" ],
                            tally, <<Message("Refresh", <<>>)>>) :
                    tally \in {batch(a, "archive_file", faults, home, 1, same)} })
      [] type = "FolderSelected" ->
           IF message.arg # <<>>
           THEN Handled(scan_and_filter([ a EXCEPT !.folder_path = message.arg ],
                                        w, now, checks), same, <<>>)
           ELSE Handled(a, same, <<>>)
      [] type = "ChangeAge" ->
           IF a.folder_path # <<>>
           THEN Handled(scan_and_filter([ a EXCEPT !.age_filter = message.arg ],
                                        w, now, checks), same, <<>>)
           ELSE Handled([ a EXCEPT !.age_filter = message.arg ], same, <<>>)
      [] type = "ChangeSize" ->
           IF a.folder_path # <<>>
           THEN Handled(scan_and_filter([ a EXCEPT !.size_filter = message.arg ],
                                        w, now, checks), same, <<>>)
           ELSE Handled([ a EXCEPT !.size_filter = message.arg ], same, <<>>)
      [] type = "Refresh" ->
           IF a.folder_path # <<>>
           THEN Only({ Handled(IF scanned.panicked THEN scanned
                               ELSE [ scanned EXCEPT
                                        !.message = Status("Files refreshed successfully.", <<>>),
                                        !.message_type = "Success" ], same, <<>>) :
                       scanned \in {scan_and_filter(a, w, now, checks)} })
           ELSE Handled([ a EXCEPT
                            !.message = Status("No folder selected. Please select a folder first.", <<>>),
                            !.message_type = "Warning" ], same, <<>>)
      [] type = "SelectFolder" ->
           Handled(a, same, <<Message("FolderSelected", picked)>>)
      [] type = "SortBy" ->
           Handled(apply_sort_and_filter([ a EXCEPT !.sort_by = message.arg ], now, checks),
                   same, <<>>)
      [] type = "FilterByType" ->
           Handled(apply_sort_and_filter([ a EXCEPT !.filter_by_type = message.arg ],
                                         now, checks), same, <<>>)
      [] type = "ClearMessage" ->
           Handled([ a EXCEPT !.message = Status("Ready.", <<>>),
                              !.message_type = "Info" ], same, <<>>)
      [] type = "PreviewFile" ->
           Handled([ a EXCEPT !.message = Status("Preview: {}", <<message.arg>>),
                              !.message_type = "Info" ], same, <<>>)
      [] type = "ShowStats" ->
           Handled([ a EXCEPT
                       !.message = Status("Total Files: {}, Total Size: {:.2} MB, Selected: {} files ({:.2} MB)",
                                          <<a.stats.total_files, a.stats.total_size,
                                            a.selected_count, a.total_size_selected>>),
                       !.message_type = "Info" ], same, <<>>)
      [] type = "ExportList" ->
           Handled([ a EXCEPT
                       !.message = Status("Export functionality not implemented yet.", <<>>),
                       !.message_type = "Info" ], same, <<>>)
      [] type = "ToggleAutoRefresh" ->
           IF message.arg
           THEN Handled([ a EXCEPT
                            !.auto_refresh = TRUE,
                            !.message = Status("Auto-refresh enabled (every 30 seconds).", <<>>),
                            !.message_type = "Success" ],
                        same, <<Message("AutoRefreshTick", <<>>)>>)
           ELSE Handled([ a EXCEPT !.auto_refresh = FALSE,
                                   !.message = Status("Auto-refresh disabled.", <<>>),
                                   !.message_type = "Info" ], same, <<>>)
      [] type = "AutoRefreshTick" ->
           IF a.auto_refresh
           THEN Handled(scan_and_filter(a, w, now, checks), same,
                        <<Message("AutoRefreshTick", <<>>)>>)
           ELSE Handled(a, same, <<>>)
      [] type = "DeleteSelected" ->
           Handled(a, same, <<Message("ShowDeleteConfirmation", <<>>)>>)

\* --------------------------------------------- the application: state machine

\* Messages handled in a run, commands in flight at a time, and calls of a
\* batch that the OS fails
MaxHandled == 2

MaxPending == 2

MaxFaults == 1

\* A file of the scanned folder with what fs::metadata reports of it
StoredFile(content, len, accessed) ==
    [ kind |-> "file", content |-> content, readonly |-> FALSE, len |-> len,
      accessed |-> accessed ]

\* The clock: day 100
AppNow == 8640000

\* Three files last read on the days 10, 20 and 30, each of 200 MB or, as
\* sparse files can be, of 3 * 2^61 bytes
HomeFiles(huge) ==
    LET len == IF huge THEN HugeSize ELSE U64(209715200)
    IN  Put(Put(Put(<<>>,
            PathOf(HomeDir, <<"a", ".", "j", "p", "g">>), StoredFile(Data("c1"), len, U64(864000))),
            PathOf(HomeDir, <<"b", ".", "p", "d", "f">>), StoredFile(Data("c2"), len, U64(1728000))),
            PathOf(HomeDir, <<"c">>), StoredFile(Data("c3"), len, U64(2592000)))

\* main.rs:99-122: fn new
new ==
    [ files               |-> <<>>,
      all_files           |-> <<>>,
      selected            |-> <<>>,
      message             |-> Status("Select a folder to begin scanning for old files.", <<>>),
      message_type        |-> "Info",
      folder_path         |-> HomeFolder,
      age_filter          |-> <<"3", "0">>,
      size_filter         |-> <<"1", "0", "0">>,
      rule                |-> DefaultRule,
      state               |-> "Normal",
      sort_by             |-> "Date",
      filter_by_type      |-> "All",
      auto_refresh        |-> FALSE,
      stats               |-> [ total_files |-> 0, total_size |-> U64(0),
                                oldest_file |-> <<>>, newest_file |-> <<>>,
                                largest_file |-> <<>>, file_types |-> <<>> ],
      selected_count      |-> 0,
      total_size_selected |-> U64(0),
      panicked            |-> FALSE ]

\* The last message handled: the action calls it made, the filesystem and
\* the application it found, and the count the standing delete prompt
\* announced
NoMessage ==
    [ msg |-> Message("none", <<>>), made |-> <<>>, fs |-> <<>>, dirs |-> {},
      app |-> new, prompted |-> 0 ]

\* The program and its surroundings between two messages
Running(a, f, d, in_flight, handled) ==
    [ app |-> a, fs |-> f, dirs |-> d, pending |-> in_flight, last |-> handled ]

\* The run loop hands message to update and keeps the commands it returns;
\* left is what is in flight besides the message.
Step(s, message, left, now, checks, faults, home, picked) ==
    Only({ Running(h.app, h.fs, h.dirs, left \o h.commands,
                   [ msg |-> message, made |-> h.made, fs |-> s.fs, dirs |-> s.dirs,
                     app |-> s.app,
                     prompted |-> IF h.app.state = "ConfirmingDelete"
                                     /\ message.type = "ShowDeleteConfirmation"
                                  THEN s.app.selected_count
                                  ELSE s.last.prompted ]) :
           h \in { update(s.app, World(s.fs, s.dirs), message, now, checks, faults, home,
                          picked) } })

\* How far a session has come when the run starts: the window just opened,
\* the folder scanned, or the first row ticked and the delete prompt standing
Sessions ==
    { <<>>,
      <<Message("Refresh", <<>>)>>,
      <<Message("Refresh", <<>>), Message("ToggleSelection", <<0, TRUE>>),
        Message("DeleteSelected", <<>>), Message("ShowDeleteConfirmation", <<>>)>> }

RECURSIVE Replay(_, _, _, _, _)
\* The program after the messages of a session, none of them meeting an OS
\* failure; a panic ends it
Replay(s, messages, now, checks, home) ==
    IF messages = <<>> \/ s.app.panicked THEN s
    ELSE Only({ Replay(next, Tail(messages), now, checks, home) :
                next \in { Step(s, Head(messages), <<>>, now, checks,
                                [ i \in 1..Len(s.app.selected) |-> <<>> ], home, <<>>) } })

InitApp ==
    /\ env_home = <<>>
    /\ now_secs = U64(AppNow)
    /\ overflow_checks \in BOOLEAN
    /\ \E huge \in BOOLEAN, session \in Sessions :
          \E s \in { Replay(Running(new, HomeFiles(huge), {HomeDir}, <<>>, NoMessage),
                            session, now_secs, overflow_checks, home_dir(env_home)) } :
              /\ app = s.app
              /\ fs = s.fs
              /\ dirs = s.dirs
              /\ pending = <<>>
              /\ last = s.last
    /\ calls = 0
    /\ trash_log = {}
    /\ procs = <<>>
    /\ archive_log = {}
    /\ files = <<>>
    /\ rule = DefaultRule
    /\ run = NoRun
    /\ prev_run = NoRun
    /\ edits = 0
    /\ rstatus = "idle"
    /\ ErrVarsUnused
    /\ CallVarsUnused

\* The OS failures the calls of a batch meet: none outside a batch, and in
\* one a failure of the action for some of the flagged records
BatchFaults(message) ==
    IF message.type \notin {"ConfirmDelete", "ArchiveSelected"} THEN {<<>>}
    ELSE LET at == IF message.type = "ConfirmDelete" THEN {"remove_file"}
                   ELSE {"copy", "remove_file"}
         IN  { f \in [ 1..Len(app.selected) -> FaultsAt(at) ] :
                 /\ \A i \in 1..Len(app.selected) : ~app.selected[i] => f[i] = <<>>
                 /\ Cardinality({i \in 1..Len(app.selected) : f[i] # <<>>}) <= MaxFaults }

\* What the folder dialog returns: nothing when it is cancelled
Picked(message) ==
    IF message.type = "SelectFolder" THEN {<<>>, HomeFolder} ELSE {<<>>}

\* The application handles a message; left is what is in flight besides it
Handle(message, left) ==
    /\ ~app.panicked
    /\ calls < MaxHandled
    /\ \E faults \in BatchFaults(message), picked \in Picked(message) :
          \E s \in { Step(Running(app, fs, dirs, pending, last), message, left, now_secs,
                          overflow_checks, faults, Home, picked) } :
              /\ Len(s.pending) <= MaxPending
              /\ app' = s.app
              /\ fs' = s.fs
              /\ dirs' = s.dirs
              /\ pending' = s.pending
              /\ last' = s.last
    /\ calls' = calls + 1
    /\ UNCHANGED <<env_home, trash_log, procs, archive_log, ruleVars, errVars, callVars>>

\* A message of a widget of the view
FromView(message) == Handle(message, pending)

\* A message a command delivers
FromCommand(type) ==
    \E k \in 1..Len(pending) :
        /\ pending[k].type = type
        /\ Handle(pending[k], SubSeq(pending, 1, k - 1) \o SubSeq(pending, k + 1, Len(pending)))

\* main.rs:396: the checkbox of a row, showing selected.get(i).copied().unwrap_or(false)
ToggleSelection ==
    \E i \in 1..Len(app.files) :
        FromView(Message("ToggleSelection",
                         <<i - 1, ~(i <= Len(app.selected) /\ app.selected[i])>>))

\* main.rs:362: the Select All checkbox, showing selected.iter().all(|&x| x)
SelectAll ==
    FromView(Message("SelectAll", ~(\A i \in 1..Len(app.selected) : app.selected[i])))

\* main.rs:433: the button of the Normal actions row
DeleteSelected == app.state = "Normal" /\ FromView(Message("DeleteSelected", <<>>))

\* main.rs:434
ArchiveSelected == app.state = "Normal" /\ FromView(Message("ArchiveSelected", <<>>))

\* main.rs:417: the button of the ConfirmingDelete actions row
ConfirmDelete ==
    app.state = "ConfirmingDelete" /\ FromView(Message("ConfirmDelete", <<>>))

\* main.rs:418
CancelDelete ==
    app.state = "ConfirmingDelete" /\ FromView(Message("CancelDelete", <<>>))

\* main.rs:306: what DeleteSelected's command delivers
ShowDeleteConfirmation == FromCommand("ShowDeleteConfirmation")

\* main.rs:226-235: what SelectFolder's command delivers
FolderSelected == FromCommand("FolderSelected")

\* main.rs:286, 299: what the 30 s sleep delivers
AutoRefreshTick == FromCommand("AutoRefreshTick")

\* main.rs:321: the Refresh button; main.rs:173, 209: after a batch
Refresh == FromView(Message("Refresh", <<>>)) \/ FromCommand("Refresh")

SelectFolder == FromView(Message("SelectFolder", <<>>))

\* What is typed into the age and size fields, "" not being a number
FilterInputs == {<<"0">>, <<>>}

ChangeAge == \E s \in FilterInputs : FromView(Message("ChangeAge", s))

ChangeSize == \E s \in FilterInputs : FromView(Message("ChangeSize", s))

SortBy == \E criteria \in SortCriteria : FromView(Message("SortBy", criteria))

FilterChoices == {"All", "Images", "Documents", "Videos"}

FilterByType == \E t \in FilterChoices : FromView(Message("FilterByType", t))

ClearMessage == FromView(Message("ClearMessage", <<>>))

PreviewFile ==
    \E i \in 1..Len(app.files) : FromView(Message("PreviewFile", app.files[i].path))

ShowStats == FromView(Message("ShowStats", <<>>))

ExportList == FromView(Message("ExportList", <<>>))

ToggleAutoRefresh == FromView(Message("ToggleAutoRefresh", ~app.auto_refresh))

NextApp ==
    \/ ToggleSelection
    \/ SelectAll
    \/ DeleteSelected
    \/ ShowDeleteConfirmation
    \/ ConfirmDelete
    \/ CancelDelete
    \/ ArchiveSelected
    \/ SelectFolder
    \/ FolderSelected
    \/ ChangeAge
    \/ ChangeSize
    \/ Refresh
    \/ SortBy
    \/ FilterByType
    \/ ClearMessage
    \/ PreviewFile
    \/ ShowStats
    \/ ExportList
    \/ ToggleAutoRefresh
    \/ AutoRefreshTick

SpecApp == InitApp /\ [][NextApp]_vars

\* ------------------------------------------------- the application: claims

\* Whether the last message ran a batch, and with which action
BatchOf ==
    IF last.msg.type = "ConfirmDelete" THEN "delete_file"
    ELSE IF last.msg.type = "ArchiveSelected" /\ last.app.selected_count > 0
    THEN "archive_file"
    ELSE "none"

\* The rows that were flagged when the last message arrived, in list order
RECURSIVE FlaggedFrom(_)
FlaggedFrom(i) ==
    IF i > Len(last.app.selected) THEN <<>>
    ELSE (IF last.app.selected[i] THEN <<i>> ELSE <<>>) \o FlaggedFrom(i + 1)

Flagged == FlaggedFrom(1)

Succeeded == {k \in 1..Len(last.made) : last.made[k].ret = Ok}

\* C23: a batch delete or archive calls the action once for each flagged
\* record, in list order, whatever the earlier calls returned; what a call
\* that succeeded did stays done when another call fails; the two counts of
\* the status line are those of the calls that returned Ok and of those that
\* did not, adding up to the number of flagged records; and the status is
\* an error exactly when a call failed.
C23_BatchWithoutTransaction ==
    BatchOf # "none" =>
        /\ Len(last.made) = Len(Flagged)
        /\ \A k \in 1..Len(last.made) :
              /\ last.made[k].op = BatchOf
              /\ last.made[k].index = Flagged[k]
              /\ last.made[k].path = as_path(last.app.files[Flagged[k]].path)
        /\ \A k \in Succeeded :
              /\ last.made[k].path \in DOMAIN last.fs
              /\ last.made[k].path \notin DOMAIN fs
              /\ BatchOf = "archive_file" =>
                    \E e \in InDir(fs, archive_dir(Home)) \ DOMAIN last.fs :
                        fs[e].content = last.fs[last.made[k].path].content
        /\ \A k \in 1..Len(last.made) \ Succeeded :
              last.made[k].path \in DOMAIN last.fs =>
                  /\ last.made[k].path \in DOMAIN fs
                  /\ fs[last.made[k].path] = last.fs[last.made[k].path]
        /\ app.message.numbers =
               IF Cardinality(Succeeded) = Len(last.made)
               THEN <<Cardinality(Succeeded)>>
               ELSE <<Cardinality(Succeeded), Len(last.made) - Cardinality(Succeeded)>>
        /\ app.message_type =
               IF Cardinality(Succeeded) = Len(last.made) THEN "Success" ELSE "Error"
        /\ app.state = "Normal"

\* A batch archive of three records whose first call failed and whose other
\* two succeeded
C23_Witness ==
    /\ BatchOf = "archive_file"
    /\ Len(last.made) = 3
    /\ last.made[1].ret # Ok
    /\ last.made[2].ret = Ok
    /\ last.made[3].ret = Ok
    /\ app.message_type = "Error"
    /\ app.message.numbers = <<2, 1>>

\* The delete_file calls of the last message
Deletions == {k \in 1..Len(last.made) : last.made[k].op = "delete_file"}

\* C26, but for the count: delete_file is called only while ConfirmDelete is
\* handled; the state becomes ConfirmingDelete only by a
\* ShowDeleteConfirmation that finds at least one record selected, and the
\* prompt then announces that count; CancelDelete leaves the state Normal
\* and the filesystem as it was.
C26_ConfirmationGuardsDeletion ==
    /\ Deletions # {} => last.msg.type = "ConfirmDelete"
    /\ (app.state = "ConfirmingDelete" /\ last.app.state # "ConfirmingDelete") =>
          /\ last.msg.type = "ShowDeleteConfirmation"
          /\ last.app.selected_count > 0
          /\ app.message.numbers = <<last.app.selected_count>>
          /\ last.prompted = last.app.selected_count
    /\ last.msg.type = "CancelDelete" =>
          /\ app.state = "Normal"
          /\ last.made = <<>>
          /\ fs = last.fs
          /\ dirs = last.dirs

\* C26: the above, and when ConfirmDelete arrives deletion is attempted on
\* as many files as the confirmation prompt announced, whatever messages
\* were handled in between.
C26_DeletesWhatWasAnnounced ==
    /\ C26_ConfirmationGuardsDeletion
    /\ last.msg.type = "ConfirmDelete" => Cardinality(Deletions) = last.prompted

\* The rows flagged now
FlagsSet == {i \in 1..Len(app.selected) : app.selected[i]}

RECURSIVE ExactSelectedSize(_)
\* The sum of the sizes of the flagged rows among the first n, with a limb
\* more than a u64 has
ExactSelectedSize(n) ==
    IF n = 0 THEN U64(0) \o <<0>>
    ELSE IF n \in FlagsSet /\ n <= Len(app.files)
         THEN AddFrom(ExactSelectedSize(n - 1), app.files[n].size \o <<0>>, 1, 0)[1]
    ELSE ExactSelectedSize(n - 1)

\* The messages after which the list was scanned, filtered or sorted again
Relisted ==
    \/ last.msg.type \in {"SortBy", "FilterByType"}
    \/ last.msg.type \in {"Refresh", "ChangeAge", "ChangeSize"} /\ last.app.folder_path # <<>>
    \/ last.msg.type = "FolderSelected" /\ last.msg.arg # <<>>
    \/ last.msg.type = "AutoRefreshTick" /\ last.app.auto_refresh

\* The bookkeeping but for the size: one flag per displayed record, the
\* count that of the flags set, no flag set after the list was scanned,
\* filtered or sorted again, and the list changed by no other message
SelectionStructure ==
    /\ Len(app.selected) = Len(app.files)
    /\ app.selected_count = Cardinality(FlagsSet)
    /\ Relisted => FlagsSet = {}
    /\ app.files # last.app.files => Relisted
    /\ (FlagsSet # {i \in 1..Len(last.app.selected) : last.app.selected[i]}) =>
          Relisted \/ last.msg.type \in {"ToggleSelection", "SelectAll"}

\* C27: after every handled message there is one flag per displayed record,
\* selected_count is the number of flags set and total_size_selected is the
\* sum of the sizes of the flagged records; a scan, filter or sort clears all
\* flags, and the list changes in no other way, so that a flag stays with
\* the record it was set for.
C27_SelectionBookkeeping ==
    ~app.panicked =>
        /\ SelectionStructure
        /\ app.total_size_selected \o <<0>> = ExactSelectedSize(Len(app.selected))

\* C27 where the sizes of the flagged records add up to less than 2^64
C27_SelectionBookkeepingWithin64Bits ==
    ~app.panicked =>
        /\ SelectionStructure
        /\ ExactSelectedSize(Len(app.selected))[U64Limbs + 1] = 0 =>
              app.total_size_selected \o <<0>> = ExactSelectedSize(Len(app.selected))

====
